---- MODULE Spec2Model ----
(***************************************************************************)
(* A model of the octypes codec layer: the optional scalars               *)
(* (string, int64, bool, float64, timestamp), their binary encoding       *)
(* (WriteTo / ReadFrom) and their text encoding (MarshalJSON /            *)
(* UnmarshalJSON), and the composite record built from them.              *)
(*                                                                         *)
(* Representation.  A byte is a number in 0..255, a Go string or []byte    *)
(* is a sequence of bytes.  A 64-bit quantity (int64, the bit pattern of   *)
(* a float64) is written as its 8 bytes, most significant first, in        *)
(* two's complement: 42 is <<0,0,0,0,0,0,0,42>>, -1 is eight 255s.  All    *)
(* 64-bit arithmetic is done on that form and wraps at 2^64 as Go's does.  *)
(* A time.Time is [sec, nsec, loc]: Unix seconds (64-bit), nanoseconds     *)
(* within the second, and the zone name.  The Go error nil is "nil".       *)
(***************************************************************************)
EXTENDS Integers, Sequences, FiniteSets, TLC

VARIABLES
    typ,    \* the type under test and its form: [kind, form]
    tgt,    \* the decode target (a value of that type), as the caller holds it
    src,    \* the bytes left in the io.Reader handed to ReadFrom
    enc,    \* the last encode call: its argument, the sink's log and its results
    dec,    \* the last decode call: its input and its results
    nreads, \* the number of decodes into the target so far, capped
    pool,   \* the InternPool: its map, its recency list and its two limits
    mu,     \* the pool's mutex: the thread that holds it, 0 when it is free
    thr,    \* each thread's call on the pool: its place in it and its locals
    hist    \* what Intern has returned so far, kept to state the pool's rules

codecVars == <<typ, tgt, src, enc, dec, nreads>>
poolVars == <<pool, mu, thr, hist>>
vars == <<typ, tgt, src, enc, dec, nreads, pool, mu, thr, hist>>

\* no pool is in use
PoolUnused == pool = <<>> /\ mu = 0 /\ thr = <<>> /\ hist = <<>>

(***************************************************************************)
(* Bounds of the model.                                                    *)
(***************************************************************************)
\* longest string payload drawn from the alphabet (longer ones are listed by hand)
MaxStrLen == 2
\* number of bytes a failing Write call may still accept
MaxAccept == 1
\* number of times one composite target is decoded into
MaxComplexDecodes == 1
\* longest string payload of the text codec drawn from its alphabet
MaxTextLen == 2
\* longest text input drawn from the input alphabets
MaxInputLen == 3
\* threads that share the intern pool
NumThreads == 2
\* largest maxSize a pool is created with
MaxPoolSize == 2

(***************************************************************************)
(* 64-bit arithmetic on 8-byte big-endian numbers.                         *)
(***************************************************************************)
Min(a, b) == IF a < b THEN a ELSE b

\* Loops are run by doubling: an operator F(..., st, k) is the state of its
\* loop after at most 2^k rounds from the state st, and Rounds(n) is a k
\* with at least n rounds
Rounds(n) == CHOOSE k \in 0..30 : 2 ^ k >= n /\ (k > 0 => 2 ^ (k - 1) < n)

Repeat(b, n) == [i \in 1..n |-> b]

Reverse(s) == [i \in 1..Len(s) |-> s[Len(s) + 1 - i]]

\* a*m + c on a big-endian byte number, wrapping at its width, for m below
\* 2^23: the loop from the last byte up, at byte st.i with the carry st.c
\* into it and the bytes st.out below it
RECURSIVE MulAddFrom(_, _, _)
MulAddFrom(a, m, st) ==
    IF st.i = 0 THEN st
    ELSE MulAddFrom(a, m, [i |-> st.i - 1, c |-> (a[st.i] * m + st.c) \div 256,
                           out |-> <<(a[st.i] * m + st.c) % 256>> \o st.out])

MulAdd64(a, m, c) == MulAddFrom(a, m, [i |-> Len(a), c |-> c, out |-> <<>>]).out

\* the carry out of a*m + c: not 0 when the result does not fit the width
CarryOut(a, m, c) == MulAddFrom(a, m, [i |-> Len(a), c |-> c, out |-> <<>>]).c

Zero64 == <<0, 0, 0, 0, 0, 0, 0, 0>>
IsZero64(a) == \A i \in 1..Len(a) : a[i] = 0
IsNeg64(a) == a[1] >= 128
Not64(a) == [i \in 1..Len(a) |-> 255 - a[i]]
Neg64(a) ==
    [i \in 1..Len(a) |->
        (255 - a[i] + (IF \A j \in (i + 1)..Len(a) : a[j] = 0 THEN 1 ELSE 0)) % 256]

\* a small natural number (below 2^31) as a 64-bit value, and its negation
BE(v) == <<0, 0, 0, 0, (v \div 16777216) % 256, (v \div 65536) % 256, (v \div 256) % 256, v % 256>>
I64(v) == IF v >= 0 THEN BE(v) ELSE Neg64(BE(-v))

\* unsigned and signed order
ULt(a, b) == \E i \in 1..Len(a) : a[i] < b[i] /\ \A j \in 1..(i - 1) : a[j] = b[j]
SLt(a, b) == IF IsNeg64(a) # IsNeg64(b) THEN IsNeg64(a) ELSE ULt(a, b)

\* unsigned division by a small divisor (below 2^23): the long division from
\* the first byte down, at byte st.i with the remainder st.r of the bytes
\* above it and their quotient bytes st.out
RECURSIVE DivFrom(_, _, _)
DivFrom(a, d, st) ==
    IF st.i > Len(a) THEN st
    ELSE DivFrom(a, d, [i |-> st.i + 1, r |-> (st.r * 256 + a[st.i]) % d,
                        out |-> Append(st.out, (st.r * 256 + a[st.i]) \div d)])

UDiv(a, d) == DivFrom(a, d, [i |-> 1, r |-> 0, out |-> <<>>]).out
UMod(a, d) == DivFrom(a, d, [i |-> 1, r |-> 0, out |-> <<>>]).r

\* a decimal digit string (bytes '0'..'9') as a number, wrapping: the loop at
\* digit st.i with the number st.acc of the digits before it
RECURSIVE FromDigits(_, _, _)
FromDigits(ds, st, k) ==
    IF st.i > Len(ds) THEN st
    ELSE IF k = 0 THEN [i |-> st.i + 1, acc |-> MulAdd64(st.acc, 10, ds[st.i] - 48)]
    ELSE FromDigits(ds, FromDigits(ds, st, k - 1), k - 1)
Dec64(ds) == FromDigits(ds, [i |-> 1, acc |-> Zero64], Rounds(Len(ds))).acc

MaxInt64 == <<127, 255, 255, 255, 255, 255, 255, 255>>
MinInt64 == <<128, 0, 0, 0, 0, 0, 0, 0>>

(***************************************************************************)
(* encoding/binary, io.ReadFull and the caller's sink.                     *)
(***************************************************************************)
\* binary.LittleEndian.PutUint64 / Uint64: least significant byte first
\* (a faulty writer: the bytes put most significant first)
PutUint64_BigEndian(v) == v
PutUint64(v) == Reverse(v)
\* (a faulty reader: the bytes taken most significant first)
Uint64_BigEndian(bs) == bs
Uint64(bs) == Reverse(bs)

\* binary.LittleEndian.PutUint32 of a number below 2^31
PutUint32(v) == <<v % 256, (v \div 256) % 256, (v \div 65536) % 256, (v \div 16777216) % 256>>
\* binary.LittleEndian.Uint32 as a 4-byte big-endian number
Uint32(bs) == Reverse(bs)
\* its value, when that is below 2^16
Small32(u) == u[3] * 256 + u[4]
IsSmall32(u) == u[1] = 0 /\ u[2] = 0

\* (a faulty ReadFull: a short read that reaches the end of the reader counts
\* as a full one, the rest of the buffer staying zero)
ReadFull_ShortOk(s, k) ==
    IF Len(s) >= k \/ Len(s) > 0
    THEN [data |-> SubSeq(s, 1, Min(k, Len(s))) \o Repeat(0, k - Min(k, Len(s))),
          n |-> Min(k, Len(s)), err |-> "nil", rest |-> SubSeq(s, k + 1, Len(s))]
    ELSE [data |-> s, n |-> 0, err |-> "EOF", rest |-> <<>>]

\* io.ReadFull(r, buf) with len(buf) = k on a reader holding s: all k bytes, or
\* what there is with io.EOF (nothing read) or io.ErrUnexpectedEOF
ReadFull(s, k) ==
    IF Len(s) >= k
    THEN [data |-> SubSeq(s, 1, k), n |-> k, err |-> "nil", rest |-> SubSeq(s, k + 1, Len(s))]
    ELSE [data |-> s, n |-> Len(s),
          err |-> IF Len(s) = 0 THEN "EOF" ELSE "ErrUnexpectedEOF", rest |-> <<>>]

\* io.ReadFull for a length that exceeds anything a reader of the model holds
ReadFullHuge(s) ==
    [data |-> s, n |-> Len(s),
     err |-> IF Len(s) = 0 THEN "EOF" ELSE "ErrUnexpectedEOF", rest |-> <<>>]

\* The sink.  plan = [failAt, accept, sticky]: the Write call number failAt
\* (0: none) accepts only `accept` bytes and returns the error "werr"; after
\* it a sticky sink (a closed one) refuses every call with "closed", any other
\* sink works again.  idx is the number of the call on this sink.
SinkWrite(plan, idx, data) ==
    IF plan.failAt = idx
    THEN [data |-> data, n |-> Min(plan.accept, Len(data)), err |-> "werr"]
    ELSE IF plan.failAt # 0 /\ idx > plan.failAt /\ plan.sticky
    THEN [data |-> data, n |-> 0, err |-> "closed"]
    ELSE [data |-> data, n |-> Len(data), err |-> "nil"]

\* the bytes the sink took, over a log of Write calls
RECURSIVE Accepted(_)
Accepted(calls) ==
    IF calls = <<>> THEN <<>>
    ELSE SubSeq(Head(calls).data, 1, Head(calls).n) \o Accepted(Tail(calls))

(***************************************************************************)
(* OptimizedNullString                                                     *)
(***************************************************************************)
\* WriteTo on a sink that has seen `base` Write calls: the log of the calls it
\* makes and the (n, err) it returns
OptimizedNullString_WriteTo(ns, plan, base) ==
    LET validByte == IF ns.Valid THEN 1 ELSE 0
        c1 == SinkWrite(plan, base + 1, <<validByte>>)
    IN  IF c1.err # "nil" THEN [calls |-> <<c1>>, n |-> c1.n, err |-> c1.err]
        ELSE IF ~ns.Valid THEN [calls |-> <<c1>>, n |-> c1.n, err |-> "nil"]
        ELSE LET lenBytes == PutUint32(Len(ns.String))
                 c2 == SinkWrite(plan, base + 2, lenBytes)
             IN  IF c2.err # "nil"
                 THEN [calls |-> <<c1, c2>>, n |-> c1.n + c2.n, err |-> c2.err]
                 ELSE IF Len(ns.String) > 0
                 THEN LET c3 == SinkWrite(plan, base + 3, ns.String)
                      IN  [calls |-> <<c1, c2, c3>>, n |-> c1.n + c2.n + c3.n, err |-> c3.err]
                 ELSE [calls |-> <<c1, c2>>, n |-> c1.n + c2.n, err |-> "nil"]

\* ReadFrom into the target ns from a reader holding s: the target afterwards,
\* (n, err) and what the reader still holds
OptimizedNullString_ReadFrom(ns, s) ==
    LET r1 == ReadFull(s, 1)
    IN  IF r1.err # "nil" THEN [tgt |-> ns, n |-> r1.n, err |-> r1.err, rest |-> r1.rest]
        ELSE IF r1.data[1] # 1
        THEN [tgt |-> [String |-> <<>>, Valid |-> FALSE], n |-> r1.n, err |-> "nil", rest |-> r1.rest]
        ELSE LET r2 == ReadFull(r1.rest, 4)
                 ns1 == [ns EXCEPT !.Valid = TRUE]
             IN  IF r2.err # "nil"
                 THEN [tgt |-> ns1, n |-> r1.n + r2.n, err |-> r2.err, rest |-> r2.rest]
                 ELSE LET length == Uint32(r2.data)
                      IN  IF IsZero64(length)
                          THEN [tgt |-> [String |-> <<>>, Valid |-> TRUE],
                                n |-> r1.n + r2.n, err |-> "nil", rest |-> r2.rest]
                          ELSE LET r3 == IF IsSmall32(length)
                                         THEN ReadFull(r2.rest, Small32(length))
                                         ELSE ReadFullHuge(r2.rest)
                               IN  IF r3.err # "nil"
                                   THEN [tgt |-> ns1, n |-> r1.n + r2.n + r3.n,
                                         err |-> r3.err, rest |-> r3.rest]
                                   ELSE [tgt |-> [String |-> r3.data, Valid |-> TRUE],
                                         n |-> r1.n + r2.n + r3.n, err |-> "nil",
                                         rest |-> r3.rest]

\* the public wrapper: a fresh OptimizedNullString decodes, its fields are
\* copied back whatever the error
NullString_ReadFrom(ns, s) ==
    OptimizedNullString_ReadFrom([String |-> <<>>, Valid |-> FALSE], s)

(***************************************************************************)
(* OptimizedNullInt64                                                      *)
(***************************************************************************)
OptimizedNullInt64_WriteTo(ni, plan, base) ==
    LET validByte == IF ni.Valid THEN 1 ELSE 0
        c1 == SinkWrite(plan, base + 1, <<validByte>>)
    IN  IF c1.err # "nil" THEN [calls |-> <<c1>>, n |-> c1.n, err |-> c1.err]
        ELSE IF ~ni.Valid THEN [calls |-> <<c1>>, n |-> c1.n, err |-> "nil"]
        ELSE LET c2 == SinkWrite(plan, base + 2, PutUint64(ni.Int64))
             IN  [calls |-> <<c1, c2>>, n |-> c1.n + c2.n, err |-> c2.err]

OptimizedNullInt64_ReadFrom(ni, s) ==
    LET r1 == ReadFull(s, 1)
    IN  IF r1.err # "nil" THEN [tgt |-> ni, n |-> r1.n, err |-> r1.err, rest |-> r1.rest]
        ELSE IF r1.data[1] # 1
        THEN [tgt |-> [Int64 |-> Zero64, Valid |-> FALSE], n |-> r1.n, err |-> "nil", rest |-> r1.rest]
        ELSE LET r2 == ReadFull(r1.rest, 8)
             IN  IF r2.err # "nil"
                 THEN [tgt |-> [ni EXCEPT !.Valid = TRUE], n |-> r1.n + r2.n,
                       err |-> r2.err, rest |-> r2.rest]
                 ELSE [tgt |-> [Int64 |-> Uint64(r2.data), Valid |-> TRUE],
                       n |-> r1.n + r2.n, err |-> "nil", rest |-> r2.rest]

NullInt64_ReadFrom(ni, s) ==
    OptimizedNullInt64_ReadFrom([Int64 |-> Zero64, Valid |-> FALSE], s)

(***************************************************************************)
(* OptimizedNullBool                                                       *)
(***************************************************************************)
\* (a faulty WriteTo: bit 1 carries Bool whatever Valid is)
OptimizedNullBool_WriteTo_Unmasked(nb, plan, base) ==
    LET flags == (IF nb.Valid THEN 1 ELSE 0) + (IF nb.Bool THEN 2 ELSE 0)
        c1 == SinkWrite(plan, base + 1, <<flags>>)
    IN  [calls |-> <<c1>>, n |-> c1.n, err |-> c1.err]

OptimizedNullBool_WriteTo(nb, plan, base) ==
    LET flags == IF nb.Valid THEN (IF nb.Bool THEN 3 ELSE 1) ELSE 0
        c1 == SinkWrite(plan, base + 1, <<flags>>)
    IN  [calls |-> <<c1>>, n |-> c1.n, err |-> c1.err]

\* (a faulty ReadFrom: Bool is left alone when the flags say invalid)
OptimizedNullBool_ReadFrom_Stale(nb, s) ==
    LET r1 == ReadFull(s, 1)
    IN  IF r1.err # "nil" THEN [tgt |-> nb, n |-> r1.n, err |-> r1.err, rest |-> r1.rest]
        ELSE LET flags == r1.data[1]
                 valid == flags % 2 # 0
             IN  [tgt |-> [Bool |-> IF valid THEN (flags \div 2) % 2 # 0 ELSE nb.Bool,
                           Valid |-> valid],
                  n |-> r1.n, err |-> "nil", rest |-> r1.rest]

OptimizedNullBool_ReadFrom(nb, s) ==
    LET r1 == ReadFull(s, 1)
    IN  IF r1.err # "nil" THEN [tgt |-> nb, n |-> r1.n, err |-> r1.err, rest |-> r1.rest]
        ELSE LET flags == r1.data[1]
                 valid == flags % 2 # 0
             IN  [tgt |-> [Bool |-> IF valid THEN (flags \div 2) % 2 # 0 ELSE FALSE,
                           Valid |-> valid],
                  n |-> r1.n, err |-> "nil", rest |-> r1.rest]

NullBool_ReadFrom(nb, s) ==
    OptimizedNullBool_ReadFrom([Bool |-> FALSE, Valid |-> FALSE], s)

(***************************************************************************)
(* OptimizedNullFloat64: Float64 is the IEEE-754 bit pattern               *)
(***************************************************************************)
\* math.Float64bits / math.Float64frombits: the pattern itself
Float64bits(f) == f
Float64frombits(u) == u

OptimizedNullFloat64_WriteTo(nf, plan, base) ==
    LET validByte == IF nf.Valid THEN 1 ELSE 0
        c1 == SinkWrite(plan, base + 1, <<validByte>>)
    IN  IF c1.err # "nil" THEN [calls |-> <<c1>>, n |-> c1.n, err |-> c1.err]
        ELSE IF ~nf.Valid THEN [calls |-> <<c1>>, n |-> c1.n, err |-> "nil"]
        ELSE LET c2 == SinkWrite(plan, base + 2, PutUint64(Float64bits(nf.Float64)))
             IN  [calls |-> <<c1, c2>>, n |-> c1.n + c2.n, err |-> c2.err]

OptimizedNullFloat64_ReadFrom(nf, s) ==
    LET r1 == ReadFull(s, 1)
    IN  IF r1.err # "nil" THEN [tgt |-> nf, n |-> r1.n, err |-> r1.err, rest |-> r1.rest]
        ELSE IF r1.data[1] # 1
        THEN [tgt |-> [Float64 |-> Zero64, Valid |-> FALSE], n |-> r1.n, err |-> "nil", rest |-> r1.rest]
        ELSE LET r2 == ReadFull(r1.rest, 8)
             IN  IF r2.err # "nil"
                 THEN [tgt |-> [nf EXCEPT !.Valid = TRUE], n |-> r1.n + r2.n,
                       err |-> r2.err, rest |-> r2.rest]
                 ELSE [tgt |-> [Float64 |-> Float64frombits(Uint64(r2.data)), Valid |-> TRUE],
                       n |-> r1.n + r2.n, err |-> "nil", rest |-> r2.rest]

NullFloat64_ReadFrom(nf, s) ==
    OptimizedNullFloat64_ReadFrom([Float64 |-> Zero64, Valid |-> FALSE], s)

(***************************************************************************)
(* OptimizedCustomTime                                                     *)
(***************************************************************************)
\* time.Time{}: January 1, year 1, 00:00:00 UTC, i.e. Unix second -62135596800
ZeroTime == [sec |-> Neg64(Dec64(<<54, 50, 49, 51, 53, 53, 57, 54, 56, 48, 48>>)),
             nsec |-> 0, loc |-> "UTC"]

\* t.UTC(): the same instant, in the zone UTC
UTC(t) == [t EXCEPT !.loc = "UTC"]

\* a uint32 (4 bytes, big-endian) split as 10^9 * q + r
SplitNanos(u) ==
    LET hi == u[1] * 256 + u[2]
        lo == u[3] * 256 + u[4]
    IN  IF hi < 32768
        THEN LET v == hi * 65536 + lo
             IN  [q |-> v \div 1000000000, r |-> v % 1000000000]
        ELSE LET y == (hi - 32768) * 65536 + lo - 852516352   \* the value - 3 * 10^9
             IN  IF y >= 1000000000 THEN [q |-> 4, r |-> y - 1000000000]
                 ELSE IF y >= 0 THEN [q |-> 3, r |-> y]
                 ELSE [q |-> 2, r |-> y + 1000000000]

\* (a faulty time.Unix call: the nanoseconds are dropped)
TimeUnix_NoNanos(sec, u) == [sec |-> sec, nsec |-> 0, loc |-> "Local"]

\* time.Unix(sec, nsec) for nsec a uint32: whole seconds of nsec are carried
\* into sec; the zone is Local
TimeUnix(sec, u) ==
    LET p == SplitNanos(u)
    IN  [sec |-> MulAdd64(sec, 1, p.q), nsec |-> p.r, loc |-> "Local"]

OptimizedCustomTime_WriteTo(ct, plan, base) ==
    IF ~ct.Valid
    THEN LET c1 == SinkWrite(plan, base + 1, <<0>>)
         IN  [calls |-> <<c1>>, n |-> c1.n, err |-> c1.err]
    ELSE LET sec == UTC(ct.Time).sec
             nsec == UTC(ct.Time).nsec
             buf == <<1>> \o PutUint64(sec) \o PutUint32(nsec)
             c1 == SinkWrite(plan, base + 1, buf)
             \* the error of the first Write is overwritten by the second's
             c2 == SinkWrite(plan, base + 2, <<0>>)
         IN  [calls |-> <<c1, c2>>, n |-> c1.n + c2.n, err |-> c2.err]

\* ReadFrom when the byte of the zone length is left in the reader
OptimizedCustomTime_ReadFrom_NoZoneByte(ct, s) ==
    LET r1 == ReadFull(s, 1)
    IN  IF r1.err # "nil" THEN [tgt |-> ct, n |-> r1.n, err |-> r1.err, rest |-> r1.rest]
        ELSE IF r1.data[1] # 1
        THEN [tgt |-> [Time |-> ZeroTime, Valid |-> FALSE], n |-> r1.n, err |-> "nil", rest |-> r1.rest]
        ELSE LET r2 == ReadFull(r1.rest, 12)
             IN  IF r2.err # "nil"
                 THEN [tgt |-> [ct EXCEPT !.Valid = TRUE], n |-> r1.n + r2.n,
                       err |-> r2.err, rest |-> r2.rest]
                 ELSE LET sec == Uint64(SubSeq(r2.data, 1, 8))
                          nsec == Uint32(SubSeq(r2.data, 9, 12))
                          t == UTC(TimeUnix(sec, nsec))
                          r3 == ReadFull(r2.rest, 0)
                      IN  [tgt |-> [Time |-> t, Valid |-> TRUE],
                           n |-> r1.n + r2.n + r3.n, err |-> r3.err, rest |-> r3.rest]

OptimizedCustomTime_ReadFrom(ct, s) ==
    LET r1 == ReadFull(s, 1)
    IN  IF r1.err # "nil" THEN [tgt |-> ct, n |-> r1.n, err |-> r1.err, rest |-> r1.rest]
        ELSE IF r1.data[1] # 1
        THEN [tgt |-> [Time |-> ZeroTime, Valid |-> FALSE], n |-> r1.n, err |-> "nil", rest |-> r1.rest]
        ELSE LET r2 == ReadFull(r1.rest, 12)
             IN  IF r2.err # "nil"
                 THEN [tgt |-> [ct EXCEPT !.Valid = TRUE], n |-> r1.n + r2.n,
                       err |-> r2.err, rest |-> r2.rest]
                 ELSE LET sec == Uint64(SubSeq(r2.data, 1, 8))
                          nsec == Uint32(SubSeq(r2.data, 9, 12))
                          t == UTC(TimeUnix(sec, nsec))
                          r3 == ReadFull(r2.rest, 1)
                      IN  [tgt |-> [Time |-> t, Valid |-> TRUE],
                           n |-> r1.n + r2.n + r3.n, err |-> r3.err, rest |-> r3.rest]

CustomTime_ReadFrom(ct, s) ==
    OptimizedCustomTime_ReadFrom([Time |-> ZeroTime, Valid |-> FALSE], s)

(***************************************************************************)
(* OptimizedComplexStruct                                                  *)
(***************************************************************************)
\* the fields in the order WriteTo and ReadFrom take them, with their types
ComplexFields == <<"Score", "Age", "CreatedAt", "UpdatedAt", "Name", "Description", "IsActive">>
FieldKind == [Score |-> "Float64", Age |-> "Int64", CreatedAt |-> "Time",
              UpdatedAt |-> "Time", Name |-> "String", Description |-> "String",
              IsActive |-> "Bool"]

\* the WriteTo and ReadFrom of a scalar of the given kind
ScalarWriteTo(kind, v, plan, base) ==
    CASE kind = "String"  -> OptimizedNullString_WriteTo(v, plan, base)
      [] kind = "Int64"   -> OptimizedNullInt64_WriteTo(v, plan, base)
      [] kind = "Bool"    -> OptimizedNullBool_WriteTo(v, plan, base)
      [] kind = "Float64" -> OptimizedNullFloat64_WriteTo(v, plan, base)
      [] kind = "Time"    -> OptimizedCustomTime_WriteTo(v, plan, base)

ScalarReadFrom(kind, v, s) ==
    CASE kind = "String"  -> OptimizedNullString_ReadFrom(v, s)
      [] kind = "Int64"   -> OptimizedNullInt64_ReadFrom(v, s)
      [] kind = "Bool"    -> OptimizedNullBool_ReadFrom(v, s)
      [] kind = "Float64" -> OptimizedNullFloat64_ReadFrom(v, s)
      [] kind = "Time"    -> OptimizedCustomTime_ReadFrom(v, s)

\* the fields from number i on are written one after the other; the first
\* error ends the call with the sum of the counts so far
RECURSIVE ComplexWriteFrom(_, _, _, _)
ComplexWriteFrom(cs, plan, base, i) ==
    LET f == ComplexFields[i]
        w == ScalarWriteTo(FieldKind[f], cs[f], plan, base)
    IN  IF w.err # "nil" \/ i = Len(ComplexFields) THEN w
        ELSE LET more == ComplexWriteFrom(cs, plan, base + Len(w.calls), i + 1)
             IN  [calls |-> w.calls \o more.calls, n |-> w.n + more.n, err |-> more.err]

OptimizedComplexStruct_WriteTo(cs, plan, base) == ComplexWriteFrom(cs, plan, base, 1)

RECURSIVE ComplexReadFrom(_, _, _)
ComplexReadFrom(cs, s, i) ==
    LET f == ComplexFields[i]
        r == ScalarReadFrom(FieldKind[f], cs[f], s)
        cs1 == [cs EXCEPT ![f] = r.tgt]
    IN  IF r.err # "nil" \/ i = Len(ComplexFields)
        THEN [tgt |-> cs1, n |-> r.n, err |-> r.err, rest |-> r.rest]
        ELSE LET more == ComplexReadFrom(cs1, r.rest, i + 1)
             IN  [tgt |-> more.tgt, n |-> r.n + more.n, err |-> more.err, rest |-> more.rest]

\* (a faulty reader: it starts at the second field)
OptimizedComplexStruct_ReadFrom_SkipScore(cs, s) == ComplexReadFrom(cs, s, 2)
OptimizedComplexStruct_ReadFrom(cs, s) == ComplexReadFrom(cs, s, 1)

(***************************************************************************)
(* Text: the literals, encoding/json's string encoder and its decoder.     *)
(***************************************************************************)
nullJSON == <<110, 117, 108, 108>>          \* null
trueJSON == <<116, 114, 117, 101>>          \* true
falseJSON == <<102, 97, 108, 115, 101>>     \* false
emptyStringJSON == <<34, 34>>               \* ""

isNullJSON(b) == Len(b) = 4 /\ b[1] = 110 /\ b[2] = 117 /\ b[3] = 108 /\ b[4] = 108
isTrueJSON(b) == Len(b) = 4 /\ b[1] = 116 /\ b[2] = 114 /\ b[3] = 117 /\ b[4] = 101
isFalseJSON(b) ==
    Len(b) = 5 /\ b[1] = 102 /\ b[2] = 97 /\ b[3] = 108 /\ b[4] = 115 /\ b[5] = 101

\* a control character, a quote or a backslash
\* (a faulty test: the backslash is not looked for)
containsSpecialChars_NoBackslash(s) == \E i \in 1..Len(s) : s[i] < 32 \/ s[i] = 34
containsSpecialChars(s) == \E i \in 1..Len(s) : s[i] < 32 \/ s[i] = 34 \/ s[i] = 92

HexDigits == <<48, 49, 50, 51, 52, 53, 54, 55, 56, 57, 97, 98, 99, 100, 101, 102>>

\* utf8: the length of the well-formed sequence that starts at s[i], 0 if none
Cont(s, i, lo, hi) == i <= Len(s) /\ s[i] >= lo /\ s[i] <= hi
RuneLen(s, i) ==
    LET b == s[i]
    IN  IF b < 128 THEN 1
        ELSE IF b >= 194 /\ b <= 223 THEN (IF Cont(s, i + 1, 128, 191) THEN 2 ELSE 0)
        ELSE IF b >= 224 /\ b <= 239
        THEN (IF /\ Cont(s, i + 1, IF b = 224 THEN 160 ELSE 128, IF b = 237 THEN 159 ELSE 191)
                 /\ Cont(s, i + 2, 128, 191)
              THEN 3 ELSE 0)
        ELSE IF b >= 240 /\ b <= 244
        THEN (IF /\ Cont(s, i + 1, IF b = 240 THEN 144 ELSE 128, IF b = 244 THEN 143 ELSE 191)
                 /\ Cont(s, i + 2, 128, 191)
                 /\ Cont(s, i + 3, 128, 191)
              THEN 4 ELSE 0)
        ELSE 0

ValidUTF8(s) == \A i \in 1..Len(s) :
    \/ RuneLen(s, i) > 0
    \/ (s[i] >= 128 /\ s[i] <= 191 /\
        \E j \in 1..3 : i - j >= 1 /\ RuneLen(s, i - j) > j)

\* utf8.AppendRune for a code point below 2^21
EncodeRune(r) ==
    IF r < 128 THEN <<r>>
    ELSE IF r < 2048 THEN <<192 + (r \div 64), 128 + (r % 64)>>
    ELSE IF r < 65536 THEN <<224 + (r \div 4096), 128 + ((r \div 64) % 64), 128 + (r % 64)>>
    ELSE <<240 + (r \div 262144), 128 + ((r \div 4096) % 64), 128 + ((r \div 64) % 64),
           128 + (r % 64)>>

RuneError == <<239, 191, 189>>              \* U+FFFD

\* encoding/json, one ASCII byte that is not copied as it is: a quote or a
\* backslash, a control character, or one of < > &
EscapeByte(b) ==
    IF b = 92 \/ b = 34 THEN <<92, b>>
    ELSE IF b = 8 THEN <<92, 98>>
    ELSE IF b = 12 THEN <<92, 102>>
    ELSE IF b = 10 THEN <<92, 110>>
    ELSE IF b = 13 THEN <<92, 114>>
    ELSE IF b = 9 THEN <<92, 116>>
    ELSE <<92, 117, 48, 48, HexDigits[(b \div 16) + 1], HexDigits[(b % 16) + 1]>>

HtmlSafe(b) == b >= 32 /\ b # 34 /\ b # 92 /\ b # 60 /\ b # 62 /\ b # 38

\* encoding/json on the rune at s[i]: n, the bytes it takes, and out, the
\* bytes written for it.  A byte that starts no well-formed sequence is
\* written as \ufffd, U+2028 and U+2029 are written as escapes
EscapeRune(s, i) ==
    IF s[i] < 128
    THEN [n |-> 1, out |-> IF HtmlSafe(s[i]) THEN <<s[i]>> ELSE EscapeByte(s[i])]
    ELSE IF RuneLen(s, i) = 0 THEN [n |-> 1, out |-> <<92, 117, 102, 102, 102, 100>>]
    ELSE IF RuneLen(s, i) = 3 /\ s[i] = 226 /\ s[i + 1] = 128 /\ s[i + 2] \in {168, 169}
    THEN [n |-> 3, out |-> <<92, 117, 50, 48, 50, HexDigits[s[i + 2] - 160 + 1]>>]
    ELSE [n |-> RuneLen(s, i), out |-> SubSeq(s, i, i + RuneLen(s, i) - 1)]

\* the encoder's loop over s, at st.i with st.out written
RECURSIVE EscapeFrom(_, _, _)
EscapeFrom(s, st, k) ==
    IF st.i > Len(s) THEN st
    ELSE IF k = 0
    THEN [i |-> st.i + EscapeRune(s, st.i).n, out |-> st.out \o EscapeRune(s, st.i).out]
    ELSE EscapeFrom(s, EscapeFrom(s, st, k - 1), k - 1)

\* json.Marshal of a Go string
JsonMarshalString(s) == EscapeFrom(s, [i |-> 1, out |-> <<34>>], Rounds(Len(s))).out \o <<34>>

\* JSON white space around a value
IsSpace(c) == c = 32 \/ c = 9 \/ c = 13 \/ c = 10
RECURSIVE TrimLeft(_)
TrimLeft(b) == IF b # <<>> /\ IsSpace(Head(b)) THEN TrimLeft(Tail(b)) ELSE b
RECURSIVE TrimRight(_)
TrimRight(b) ==
    IF b # <<>> /\ IsSpace(b[Len(b)]) THEN TrimRight(SubSeq(b, 1, Len(b) - 1)) ELSE b
Trim(b) == TrimRight(TrimLeft(b))

HexVal(c) ==
    IF c >= 48 /\ c <= 57 THEN c - 48
    ELSE IF c >= 97 /\ c <= 102 THEN c - 87
    ELSE IF c >= 65 /\ c <= 70 THEN c - 55
    ELSE -1

\* the \uXXXX escape at t[i..i+5], as a code unit; -1 if there is none
EscapeU(t, i) ==
    IF /\ i + 5 <= Len(t) /\ t[i] = 92 /\ t[i + 1] = 117
       /\ \A j \in 2..5 : HexVal(t[i + j]) >= 0
    THEN HexVal(t[i + 2]) * 4096 + HexVal(t[i + 3]) * 256 + HexVal(t[i + 4]) * 16 + HexVal(t[i + 5])
    ELSE -1

\* encoding/json on the string literal t, at the byte i after the opening
\* quote and before the closing one: n, the bytes the character or escape at
\* t[i] takes (0 when the literal is malformed there), and val, the bytes it
\* stands for
EscapedByte(e) ==
    CASE e = 34 -> 34 [] e = 92 -> 92 [] e = 47 -> 47
      [] e = 98 -> 8 [] e = 102 -> 12 [] e = 110 -> 10
      [] e = 114 -> 13 [] e = 116 -> 9 [] OTHER -> -1
EscapedRune(r, r2) ==
    IF r >= 55296 /\ r <= 56319 /\ r2 >= 56320 /\ r2 <= 57343
    THEN [n |-> 12, val |-> EncodeRune(65536 + (r - 55296) * 1024 + (r2 - 56320))]
    ELSE [n |-> 6, val |-> IF r >= 55296 /\ r <= 57343 THEN RuneError ELSE EncodeRune(r)]
EscapeToken(t, i, one, r) ==
    IF one >= 0 THEN [n |-> 2, val |-> <<one>>]
    ELSE IF t[i + 1] = 117 /\ r >= 0 THEN EscapedRune(r, EscapeU(t, i + 6))
    ELSE [n |-> 0, val |-> <<>>]
UnquoteToken(t, i) ==
    IF t[i] < 32 THEN [n |-> 0, val |-> <<>>]
    ELSE IF t[i] = 92
    THEN IF i + 1 > Len(t) THEN [n |-> 0, val |-> <<>>]
         ELSE EscapeToken(t, i, EscapedByte(t[i + 1]), EscapeU(t, i))
    ELSE IF t[i] < 128 THEN [n |-> 1, val |-> <<t[i]>>]
    ELSE IF RuneLen(t, i) = 0 THEN [n |-> 1, val |-> RuneError]
    ELSE [n |-> RuneLen(t, i), val |-> SubSeq(t, i, i + RuneLen(t, i) - 1)]

\* the scanner's check and unquote's result in one pass over t, at st.i with
\* st.val unquoted; at the end st.i is 0 and st.ok tells whether t is a
\* string literal: it ends at the first quote that is no escape, which has to
\* be the last byte
RECURSIVE UnquoteFrom(_, _, _)
UnquoteStep(st, tok) ==
    IF tok.n = 0 THEN [i |-> 0, ok |-> FALSE, val |-> <<>>]
    ELSE [i |-> st.i + tok.n, ok |-> FALSE, val |-> st.val \o tok.val]
UnquoteFrom(t, st, k) ==
    IF st.i = 0 THEN st
    ELSE IF k = 0
    THEN IF st.i > Len(t) THEN [i |-> 0, ok |-> FALSE, val |-> <<>>]
         ELSE IF t[st.i] = 34 THEN [i |-> 0, ok |-> (st.i = Len(t)), val |-> st.val]
         ELSE UnquoteStep(st, UnquoteToken(t, st.i))
    ELSE UnquoteFrom(t, UnquoteFrom(t, st, k - 1), k - 1)

\* the literal t unquoted, from the byte after its opening quote
Unquote(t) == UnquoteFrom(t, [i |-> 2, ok |-> FALSE, val |-> <<>>], Rounds(Len(t)))

\* json.Unmarshal(b, &s) for a Go string s that is "" before: white space
\* around the value is allowed, a string literal is unquoted, null leaves s
\* as it is, everything else is an error
Unquoted(u) == IF u.ok THEN [err |-> "nil", val |-> u.val] ELSE [err |-> "json", val |-> <<>>]
JsonUnmarshalString(b) ==
    LET t == Trim(b)
    IN  IF t = nullJSON THEN [err |-> "nil", val |-> <<>>]
        ELSE IF Len(t) >= 2 /\ t[1] = 34 THEN Unquoted(Unquote(t))
        ELSE [err |-> "json", val |-> <<>>]

\* json.Unmarshal(b, &bl) for a bool that is false before
JsonUnmarshalBool(b) ==
    LET t == Trim(b)
    IN  IF t = trueJSON THEN [err |-> "nil", val |-> TRUE]
        ELSE IF t = falseJSON \/ t = nullJSON THEN [err |-> "nil", val |-> FALSE]
        ELSE [err |-> "json", val |-> FALSE]

(***************************************************************************)
(* OptimizedNullString, text                                               *)
(***************************************************************************)
OptimizedNullString_MarshalJSON(ns) ==
    IF ~ns.Valid THEN [data |-> nullJSON, err |-> "nil"]
    ELSE IF ns.String = <<>> THEN [data |-> emptyStringJSON, err |-> "nil"]
    ELSE IF Len(ns.String) <= 32 /\ ~containsSpecialChars(ns.String)
    THEN [data |-> <<34>> \o ns.String \o <<34>>, err |-> "nil"]
    ELSE [data |-> JsonMarshalString(ns.String), err |-> "nil"]

StringSet(ns, u) ==
    IF u.err # "nil" THEN [tgt |-> ns, err |-> u.err]
    ELSE [tgt |-> [String |-> u.val, Valid |-> TRUE], err |-> "nil"]
OptimizedNullString_UnmarshalJSON(ns, b) ==
    IF isNullJSON(b) THEN [tgt |-> [ns EXCEPT !.Valid = FALSE], err |-> "nil"]
    ELSE IF Len(b) >= 2 /\ b[1] = 34 /\ b[Len(b)] = 34
    THEN LET s == SubSeq(b, 2, Len(b) - 1)
             needsUnescape == \E i \in 1..Len(s) : s[i] = 92
         IN  IF Len(s) = 0 THEN [tgt |-> [String |-> <<>>, Valid |-> TRUE], err |-> "nil"]
             ELSE IF ~needsUnescape THEN [tgt |-> [String |-> s, Valid |-> TRUE], err |-> "nil"]
             ELSE StringSet(ns, JsonUnmarshalString(b))
    ELSE StringSet(ns, JsonUnmarshalString(b))

NullString_UnmarshalJSON(ns, b) ==
    OptimizedNullString_UnmarshalJSON([String |-> <<>>, Valid |-> FALSE], b)

(***************************************************************************)
(* OptimizedNullBool, text                                                 *)
(***************************************************************************)
OptimizedNullBool_MarshalJSON(nb) ==
    IF ~nb.Valid THEN [data |-> nullJSON, err |-> "nil"]
    ELSE IF nb.Bool THEN [data |-> trueJSON, err |-> "nil"]
    ELSE [data |-> falseJSON, err |-> "nil"]

OptimizedNullBool_UnmarshalJSON(nb, b) ==
    IF isNullJSON(b) THEN [tgt |-> [nb EXCEPT !.Valid = FALSE], err |-> "nil"]
    ELSE IF isTrueJSON(b) THEN [tgt |-> [Bool |-> TRUE, Valid |-> TRUE], err |-> "nil"]
    ELSE IF isFalseJSON(b) THEN [tgt |-> [Bool |-> FALSE, Valid |-> TRUE], err |-> "nil"]
    ELSE LET u == JsonUnmarshalBool(b)
         IN  IF u.err # "nil" THEN [tgt |-> nb, err |-> u.err]
             ELSE [tgt |-> [Bool |-> u.val, Valid |-> TRUE], err |-> "nil"]

NullBool_UnmarshalJSON(nb, b) ==
    OptimizedNullBool_UnmarshalJSON([Bool |-> FALSE, Valid |-> FALSE], b)

(***************************************************************************)
(* strconv and OptimizedNullInt64, text                                    *)
(***************************************************************************)
IsDigit(c) == c >= 48 /\ c <= 57

\* strconv.Itoa for 0..99, the entries of digitMap
Itoa(i) == IF i < 10 THEN <<48 + i>> ELSE <<48 + (i \div 10), 48 + (i % 10)>>
digitMap(i) == Itoa(i)

\* the decimal digits of an unsigned 64-bit number, none for 0: the loop with
\* the number st.a left to write before the digits st.out
RECURSIVE UDigits(_, _)
UDigits(st, k) ==
    IF st.a = Zero64 THEN st
    ELSE IF k = 0 THEN [a |-> UDiv(st.a, 10), out |-> <<48 + UMod(st.a, 10)>> \o st.out]
    ELSE UDigits(UDigits(st, k - 1), k - 1)

\* strconv.FormatInt(i, 10), which is also what json.Marshal writes for an int64
FormatInt(a) ==
    IF IsZero64(a) THEN <<48>>
    ELSE IF IsNeg64(a) THEN <<45>> \o UDigits([a |-> Neg64(a), out |-> <<>>], Rounds(20)).out
    ELSE UDigits([a |-> a, out |-> <<>>], Rounds(20)).out

\* json.Marshal of an int64: the same decimal form
JsonMarshalInt64(a) == FormatInt(a)

\* strconv.ParseUint(s, 10, 64): the digits are accumulated in a uint64; a
\* value at or above cutoff = MaxUint64/10 + 1 before the next digit, or a
\* sum that wraps, is out of range

RECURSIVE ParseUintFrom(_, _, _)
ParseUintFrom(s, st, k) ==
    IF st.err # "" THEN st
    ELSE IF k = 0
    THEN CASE st.i > Len(s) -> [i |-> st.i, val |-> st.val, err |-> "nil"]
           [] st.i <= Len(s) /\ ~IsDigit(s[st.i]) -> [i |-> st.i, val |-> Zero64, err |-> "syntax"]
           [] st.i <= Len(s) /\ IsDigit(s[st.i])
                /\ (\/ ~ULt(st.val, <<25, 153, 153, 153, 153, 153, 153, 154>>)
                    \/ CarryOut(MulAdd64(st.val, 10, 0), 1, s[st.i] - 48) # 0)
                -> [i |-> st.i, val |-> Not64(Zero64), err |-> "range"]
           [] OTHER -> [i |-> st.i + 1, val |-> MulAdd64(st.val, 10, s[st.i] - 48), err |-> ""]
    ELSE ParseUintFrom(s, ParseUintFrom(s, st, k - 1), k - 1)

ParseUint(s) ==
    IF s = <<>> THEN [val |-> Zero64, err |-> "syntax"]
    ELSE ParseUintFrom(s, [i |-> 1, val |-> Zero64, err |-> ""], Rounds(Len(s) + 1))

\* strconv.ParseInt(s, 10, 64)
ParseInt(s) ==
    IF s = <<>> THEN [val |-> Zero64, err |-> "syntax"]
    ELSE LET neg == s[1] = 45
             body == IF s[1] = 43 \/ s[1] = 45 THEN Tail(s) ELSE s
             un == ParseUint(body)
         IN  IF un.err = "syntax" THEN [val |-> Zero64, err |-> "syntax"]
             ELSE IF ~neg /\ ~ULt(un.val, MinInt64) THEN [val |-> MaxInt64, err |-> "range"]
             ELSE IF neg /\ ULt(MinInt64, un.val) THEN [val |-> MinInt64, err |-> "range"]
             ELSE [val |-> IF neg THEN Neg64(un.val) ELSE un.val, err |-> "nil"]

\* a JSON number with neither fraction nor exponent: -?(0|[1-9][0-9]*)
IsJsonInteger(t) ==
    LET body == IF t # <<>> /\ t[1] = 45 THEN Tail(t) ELSE t
    IN  /\ body # <<>>
        /\ \A i \in 1..Len(body) : IsDigit(body[i])
        /\ (body[1] = 48 => Len(body) = 1)

\* json.Unmarshal(b, &i) for an int64 that is 0 before: white space around the
\* value is allowed, null leaves i as it is, an integer literal in range is
\* stored; any other number, any other value and any malformed text is an
\* error
JsonUnmarshalInt64(b) ==
    LET t == Trim(b)
    IN  IF t = nullJSON THEN [err |-> "nil", val |-> Zero64]
        ELSE IF IsJsonInteger(t) /\ ParseInt(t).err = "nil"
        THEN [err |-> "nil", val |-> ParseInt(t).val]
        ELSE [err |-> "json", val |-> Zero64]

\* (a faulty encoder: the validity flag is not consulted)
OptimizedNullInt64_MarshalJSON_NoFlag(ni) == [data |-> FormatInt(ni.Int64), err |-> "nil"]

OptimizedNullInt64_MarshalJSON(ni) ==
    IF ~ni.Valid THEN [data |-> nullJSON, err |-> "nil"]
    ELSE IF ~IsNeg64(ni.Int64) /\ SLt(ni.Int64, I64(100))
    THEN [data |-> digitMap(ni.Int64[8]), err |-> "nil"]
    ELSE IF ~SLt(ni.Int64, I64(100)) /\ SLt(ni.Int64, I64(1000000))
    THEN [data |-> FormatInt(ni.Int64), err |-> "nil"]
    ELSE [data |-> JsonMarshalInt64(ni.Int64), err |-> "nil"]

\* the digit loop: result = result*10 + digit in int64 arithmetic, left as
\* soon as result exceeds MaxInt64/10
RECURSIVE AccumulateDigits(_, _, _)
AccumulateDigits(b, st, k) ==
    IF st.i > Len(b) \/ SLt(UDiv(MaxInt64, 10), st.result) THEN st
    ELSE IF k = 0 THEN [i |-> st.i + 1, result |-> MulAdd64(st.result, 10, b[st.i] - 48)]
    ELSE AccumulateDigits(b, AccumulateDigits(b, st, k - 1), k - 1)

OptimizedNullInt64_UnmarshalJSON(ni, b) ==
    LET general ==
            LET u == JsonUnmarshalInt64(b)
            IN  IF u.err # "nil" THEN [tgt |-> ni, err |-> "invalid int64 format"]
                ELSE [tgt |-> [Int64 |-> u.val, Valid |-> TRUE], err |-> "nil"]
    IN  IF isNullJSON(b) THEN [tgt |-> [ni EXCEPT !.Valid = FALSE], err |-> "nil"]
        ELSE IF Len(b) > 0
        THEN LET negative == b[1] = 45
                 startIdx == IF negative THEN 1 ELSE 0
                 valid == /\ startIdx < Len(b)
                          /\ \A i \in (startIdx + 1)..Len(b) : IsDigit(b[i])
             IN  IF valid
                 THEN LET acc == AccumulateDigits(b, [i |-> startIdx + 1, result |-> Zero64],
                                             Rounds(Len(b))).result
                          result == IF negative THEN Neg64(acc) ELSE acc
                      IN  IF ~negative /\ SLt(result, I64(100))
                          THEN [tgt |-> [Int64 |-> result, Valid |-> TRUE], err |-> "nil"]
                          ELSE LET p == ParseInt(b)
                               IN  IF p.err = "nil"
                                   THEN [tgt |-> [Int64 |-> p.val, Valid |-> TRUE], err |-> "nil"]
                                   ELSE general
                 ELSE general
        ELSE general

NullInt64_UnmarshalJSON(ni, b) ==
    OptimizedNullInt64_UnmarshalJSON([Int64 |-> Zero64, Valid |-> FALSE], b)

(***************************************************************************)
(* The text codec of OptimizedNullFloat64 (encoding).  A float64 is its    *)
(* IEEE 754 bit pattern; the encoder is modelled on zero, NaN, the         *)
(* infinities and the quarters q/4 with q below 2^21, whose products and  *)
(* quotients by 100 are exact.                                             *)
(***************************************************************************)
\* the decimal digits of a natural number below 2^31
RECURSIVE NatDigits(_)
NatDigits(n) == IF n < 10 THEN <<48 + n>> ELSE NatDigits(n \div 10) \o <<48 + (n % 10)>>

\* strconv.FormatFloat(f, 'f', 2, 64) for f = q/4 >= 0
FormatFloat(q) ==
    NatDigits(q \div 4) \o <<46>> \o
    <<48 + (((q % 4) * 25) \div 10), 48 + (((q % 4) * 25) % 10)>>

\* json.Marshal of a finite float64 q/4 with the sign neg: the shortest
\* decimal form
JsonMarshalFloat64(neg, q) ==
    (IF neg THEN <<45>> ELSE <<>>) \o NatDigits(q \div 4) \o
    (CASE q % 4 = 0 -> <<>>
       [] q % 4 = 1 -> <<46, 50, 53>>
       [] q % 4 = 2 -> <<46, 53>>
       [] q % 4 = 3 -> <<46, 55, 53>>)

\* json.Marshal answers NaN and the infinities with an UnsupportedValueError
\* and no bytes
OptimizedNullFloat64_MarshalJSON(nf) ==
    LET f == nf.Float64
        neg == f[1] >= 128
        exp == (f[1] % 128) * 16 + (f[2] \div 16)
        fracIsZero == f[2] % 16 = 0 /\ \A i \in 3..8 : f[i] = 0
        \* the top 21 bits of the significand, the hidden bit included
        top == 1048576 + (f[2] % 16) * 65536 + f[3] * 256 + f[4]
        \* f = q/4 or f = -q/4 for a natural q below 2^21
        isQuarters == /\ exp >= 1021 /\ exp <= 1041
                      /\ \A i \in 5..8 : f[i] = 0
                      /\ top % (2 ^ (1041 - exp)) = 0
        q == top \div (2 ^ (1041 - exp))
    IN  IF ~nf.Valid THEN [data |-> nullJSON, err |-> "nil"]
        ELSE IF exp = 0 /\ fracIsZero THEN [data |-> <<48>>, err |-> "nil"]
        ELSE IF exp = 2047 THEN [data |-> <<>>, err |-> "json: unsupported value"]
        ELSE CASE isQuarters ->
            IF ~neg /\ q % 4 = 0 /\ q < 400
            THEN [data |-> digitMap(q \div 4), err |-> "nil"]
            ELSE IF ~neg /\ q < 4000
            THEN LET fs == FormatFloat(q)
                     n == Len(fs)
                 IN  [data |-> IF fs[n] = 48
                               THEN IF fs[n - 1] = 48 THEN SubSeq(fs, 1, n - 3)
                                    ELSE SubSeq(fs, 1, n - 1)
                               ELSE fs,
                      err |-> "nil"]
            ELSE [data |-> JsonMarshalFloat64(neg, q), err |-> "nil"]

(***************************************************************************)
(* The text codec of OptimizedCustomTime (encoding).  Modelled on the      *)
(* instants of the years 1 to 9999 in zones of a fixed offset.             *)
(***************************************************************************)
\* a + b on 64-bit numbers, wrapping
\* the carry into byte i: a lower byte overflows and every byte between is full
Carry(a, b, i) ==
    \E j \in (i + 1)..Len(a) :
        a[j] + b[j] > 255 /\ \A l \in (i + 1)..(j - 1) : a[l] + b[l] = 255
Add64(a, b) ==
    [i \in 1..Len(a) |-> (a[i] + b[i] + (IF Carry(a, b, i) THEN 1 ELSE 0)) % 256]

\* the offset east of UTC, in seconds, of the zones in use
ZoneOffset(loc) ==
    CASE loc = "UTC" -> 0
      [] loc = "Asia/Tokyo" -> 32400
      [] loc = "EST" -> -18000

\* Location.String() as bytes
ZoneName(loc) ==
    CASE loc = "UTC" -> <<85, 84, 67>>
      [] loc = "Asia/Tokyo" -> <<65, 115, 105, 97, 47, 84, 111, 107, 121, 111>>
      [] loc = "EST" -> <<69, 83, 84>>

\* the decimal digits of n, below 10^w, zero-padded to w digits
Pad(n, w) == [i \in 1..w |-> 48 + ((n \div (10 ^ (w - i))) % 10)]

\* ds without its trailing zeros
TrimZeros(ds) ==
    SubSeq(ds, 1, CHOOSE n \in 0..Len(ds) :
                      (\A i \in (n + 1)..Len(ds) : ds[i] = 48) /\ (n = 0 \/ ds[n] # 48))

\* year, month and day of the day z counted from 0000-03-01
CivilFromDays(z) ==
    LET era == z \div 146097
        doe == z - era * 146097
        yoe == (doe - doe \div 1460 + doe \div 36524 - doe \div 146096) \div 365
        doy == doe - (365 * yoe + yoe \div 4 - yoe \div 100)
        mp == (5 * doy + 2) \div 153
        month == IF mp < 10 THEN mp + 3 ELSE mp - 9
    IN  [year |-> yoe + era * 400 + (IF month <= 2 THEN 1 ELSE 0), month |-> month,
         day |-> doy - (153 * mp + 2) \div 5 + 1]

\* the layout 2006-01-02T15:04:05.999999999Z07:00 for the date c, the second
\* of the day sod, the nanoseconds and the zone offset: the fraction is
\* absent when zero and has no trailing zeros, the zone is Z for the offset
\* 0 and a signed hh:mm otherwise
AppendFormat(c, sod, nsec, off) ==
    ((Pad(c.year, 4) \o <<45>> \o Pad(c.month, 2) \o <<45>> \o Pad(c.day, 2) \o <<84>>) \o
     (Pad(sod \div 3600, 2) \o <<58>> \o Pad((sod % 3600) \div 60, 2) \o <<58>> \o
      Pad(sod % 60, 2))) \o
    ((IF nsec = 0 THEN <<>> ELSE <<46>> \o TrimZeros(Pad(nsec, 9))) \o
     (IF off = 0 THEN <<90>>
      ELSE IF off < 0
      THEN <<45>> \o Pad((-off) \div 3600, 2) \o <<58>> \o Pad(((-off) % 3600) \div 60, 2)
      ELSE <<43>> \o Pad(off \div 3600, 2) \o <<58>> \o Pad((off % 3600) \div 60, 2)))

\* a 64-bit number below 2^31 as an integer
ToInt(a) == a[5] * 16777216 + a[6] * 65536 + a[7] * 256 + a[8]

\* the seconds since 0001-01-01T00:00:00 on the clock of t's zone
AbsSeconds(t) == Add64(Add64(t.sec, Neg64(ZeroTime.sec)), I64(ZoneOffset(t.loc)))

\* t.Format(time.RFC3339Nano)
FormatRFC3339Nano(t) ==
    AppendFormat(CivilFromDays(ToInt(UDiv(AbsSeconds(t), 86400)) + 306),
                 UMod(AbsSeconds(t), 86400), t.nsec, ZoneOffset(t.loc))

\* t.UnixMilli() and t.UnixMicro()
UnixMilli(t) == MulAdd64(t.sec, 1000, t.nsec \div 1000000)
UnixMicro(t) == MulAdd64(t.sec, 1000000, t.nsec \div 1000)

\* json.Marshal of the TimeResponse: the fields in order, "full" as a quoted
\* number and left out when zero
JsonMarshalTimeResponse(tr) ==
    ((<<123, 34, 105, 115, 111, 34, 58>> \o JsonMarshalString(tr.ISO)) \o
     (<<44, 34, 116, 122, 34, 58>> \o JsonMarshalString(tr.TZ))) \o
    ((<<44, 34, 117, 110, 105, 120, 34, 58>> \o FormatInt(tr.Unix)) \o
     (<<44, 34, 117, 110, 105, 120, 109, 115, 34, 58>> \o FormatInt(tr.UnixMS))) \o
    ((<<44, 34, 117, 115, 34, 58>> \o FormatInt(tr.US)) \o
     ((IF IsZero64(tr.Full) THEN <<>>
       ELSE <<44, 34, 102, 117, 108, 108, 34, 58, 34>> \o FormatInt(tr.Full) \o <<34>>) \o
      <<125>>))

OptimizedCustomTime_MarshalJSON(ct) ==
    IF ~ct.Valid THEN [data |-> nullJSON, err |-> "nil"]
    ELSE LET tr == [ISO |-> FormatRFC3339Nano(ct.Time),
                    TZ |-> ZoneName(ct.Time.loc),
                    Unix |-> ct.Time.sec,
                    UnixMS |-> UnixMilli(ct.Time),
                    US |-> I64(ct.Time.nsec),
                    Full |-> UnixMicro(ct.Time)]
         IN  [data |-> JsonMarshalTimeResponse(tr), err |-> "nil"]

(***************************************************************************)
(* LocalizedText (map[string]string) and IntDictionary (map[string]int),   *)
(* text.  A map is [nil, m]: whether it is the nil map, and its entries as *)
(* a function from the keys; an int is a 64-bit number.                    *)
(***************************************************************************)
NilMap == [nil |-> TRUE, m |-> <<>>]

\* a stands before b in the byte-wise order
StrLess(a, b) ==
    \/ Len(a) < Len(b) /\ \A i \in 1..Len(a) : a[i] = b[i]
    \/ \E i \in 1..Min(Len(a), Len(b)) : a[i] < b[i] /\ \A j \in 1..(i - 1) : a[j] = b[j]

\* the first index from i on that holds no white space, Len(t) + 1 if none
SkipSpace(t, i) ==
    CHOOSE j \in i..(Len(t) + 1) :
        (\A q \in i..(j - 1) : IsSpace(t[q])) /\ (j > Len(t) \/ ~IsSpace(t[j]))

\* the last index of the token that starts at t[i]: of a string literal its
\* closing quote (the first quote after an even run of backslashes), 0 if
\* there is none; of anything else the last byte before a white space, a
\* comma, a colon or a closing brace
TokenEnd(t, i) ==
    IF t[i] = 34
    THEN LET J == {j \in (i + 1)..Len(t) :
                      /\ t[j] = 34
                      /\ \E p \in i..(j - 1) : /\ t[p] # 92
                                               /\ \A q \in (p + 1)..(j - 1) : t[q] = 92
                                               /\ (j - 1 - p) % 2 = 0}
         IN  IF J = {} THEN 0 ELSE CHOOSE j \in J : \A l \in J : j <= l
    ELSE CHOOSE e \in (i - 1)..Len(t) :
             /\ \A q \in i..e : ~(IsSpace(t[q]) \/ t[q] \in {44, 58, 125})
             /\ (e = Len(t) \/ IsSpace(t[e + 1]) \/ t[e + 1] \in {44, 58, 125})

\* the members of the object t from the member that starts at t[i], added to
\* the entries m: a string literal as the key, a colon, a value the element
\* type takes (a string or an integer in range, or null for the zero value),
\* then a comma and the next member, or the closing brace as the last byte
RECURSIVE ParseMembers(_, _, _, _)
ParseMembers(t, i, m, isInt) ==
    LET ke == IF i <= Len(t) /\ t[i] = 34 THEN TokenEnd(t, i) ELSE 0
        key == Unquote(SubSeq(t, i, ke))
        c == SkipSpace(t, ke + 1)
        v == SkipSpace(t, c + 1)
        ve == TokenEnd(t, v)
        val == IF isInt THEN JsonUnmarshalInt64(SubSeq(t, v, ve))
               ELSE JsonUnmarshalString(SubSeq(t, v, ve))
        n == SkipSpace(t, ve + 1)
        m1 == [k \in DOMAIN m \cup {key.val} |-> IF k = key.val THEN val.val ELSE m[k]]
    IN  IF \/ ke = 0 \/ ~key.ok \/ c > Len(t) \/ t[c] # 58 \/ v > Len(t) \/ ve = 0
           \/ val.err # "nil" \/ n > Len(t)
        THEN [err |-> "json", m |-> <<>>]
        ELSE IF t[n] = 125 /\ n = Len(t) THEN [err |-> "nil", m |-> m1]
        ELSE IF t[n] = 44 THEN ParseMembers(t, SkipSpace(t, n + 1), m1, isInt)
        ELSE [err |-> "json", m |-> <<>>]

\* json.Unmarshal(b, &m) for a map m made empty before: the entries of the
\* object b; null leaves no entry; anything else is an error
JsonUnmarshalMap(b, isInt) ==
    LET t == Trim(b)
    IN  IF t = nullJSON THEN [err |-> "nil", m |-> <<>>]
        ELSE IF Len(t) < 2 \/ t[1] # 123 THEN [err |-> "json", m |-> <<>>]
        ELSE IF t[SkipSpace(t, 2)] = 125
        THEN IF SkipSpace(t, 2) = Len(t) THEN [err |-> "nil", m |-> <<>>]
             ELSE [err |-> "json", m |-> <<>>]
        ELSE ParseMembers(t, SkipSpace(t, 2), <<>>, isInt)

\* UnmarshalJSON of the two map types, which differ in the element type only:
\* null gives the nil map, {} an empty one, anything else goes through the
\* general parser into a new map; a zero-length b is indexed at b[0]
MapUnmarshalJSON(mp, b, isInt) ==
    IF isNullJSON(b) THEN [tgt |-> NilMap, err |-> "nil"]
    ELSE IF Len(b) = 0 THEN [tgt |-> mp, err |-> "panic"]
    ELSE IF Len(b) <= 2 /\ b[1] = 123 /\ b[Len(b)] = 125
    THEN [tgt |-> [nil |-> FALSE, m |-> <<>>], err |-> "nil"]
    ELSE LET u == JsonUnmarshalMap(b, isInt)
         IN  IF u.err # "nil" THEN [tgt |-> mp, err |-> u.err]
             ELSE [tgt |-> [nil |-> FALSE, m |-> u.m], err |-> "nil"]

LocalizedText_UnmarshalJSON(lt, b) == MapUnmarshalJSON(lt, b, FALSE)
IntDictionary_UnmarshalJSON(id, b) == MapUnmarshalJSON(id, b, TRUE)

(***************************************************************************)
(* The values the model draws from.                                        *)
(***************************************************************************)
\* the bytes strings are built from: the two marker bytes

RECURSIVE SeqsUpTo(_, _)
SeqsUpTo(S, n) ==
    IF n = 0 THEN {<<>>}
    ELSE LET shorter == SeqsUpTo(S, n - 1)
         IN  shorter \cup {<<b>> \o t : b \in S, t \in {u \in shorter : Len(u) = n - 1}}

\* ... and a string with bytes above 127
BinStrings == SeqsUpTo({0, 1}, MaxStrLen) \cup {<<200, 255, 97, 0>>}

Int64Values == {I64(0), I64(1), I64(42), I64(-1), I64(256), MaxInt64, MinInt64}

\* float64 bit patterns: 0, 1.5, -2, 98.76, +Inf and a NaN
Float64Values ==
    {Zero64,
     <<63, 248, 0, 0, 0, 0, 0, 0>>,
     <<192, 0, 0, 0, 0, 0, 0, 0>>,
     <<64, 88, 176, 163, 215, 10, 61, 113>>,
     <<127, 240, 0, 0, 0, 0, 0, 0>>,
     <<127, 248, 0, 0, 0, 0, 0, 1>>}

\* instants: the epoch, the nanosecond before it in another zone, 2023-01-01
\* with a fraction, the zero time, and the last second an int64 counts
TimeValues ==
    {[sec |-> I64(0), nsec |-> 0, loc |-> "UTC"],
     [sec |-> I64(-1), nsec |-> 999999999, loc |-> "America/New_York"],
     [sec |-> I64(1672531200), nsec |-> 123456789, loc |-> "Local"],
     ZeroTime,
     [sec |-> MaxInt64, nsec |-> 1, loc |-> "Asia/Tokyo"]}


ZeroScalar(kind) ==
    CASE kind = "String"  -> [String |-> <<>>, Valid |-> FALSE]
      [] kind = "Int64"   -> [Int64 |-> Zero64, Valid |-> FALSE]
      [] kind = "Bool"    -> [Bool |-> FALSE, Valid |-> FALSE]
      [] kind = "Float64" -> [Float64 |-> Zero64, Valid |-> FALSE]
      [] kind = "Time"    -> [Time |-> ZeroTime, Valid |-> FALSE]

ZeroValue(kind) ==
    IF kind = "Complex" THEN [f \in DOMAIN FieldKind |-> ZeroScalar(FieldKind[f])]
    ELSE ZeroScalar(kind)

\* composite records: the zero record, one with every field valid, one with
\* stale payloads under invalid flags, and a mixed one
ComplexValues ==
    {[Score |-> [Float64 |-> Zero64, Valid |-> FALSE],
      Age |-> [Int64 |-> Zero64, Valid |-> FALSE],
      CreatedAt |-> [Time |-> ZeroTime, Valid |-> FALSE],
      UpdatedAt |-> [Time |-> ZeroTime, Valid |-> FALSE],
      Name |-> [String |-> <<>>, Valid |-> FALSE],
      Description |-> [String |-> <<>>, Valid |-> FALSE],
      IsActive |-> [Bool |-> FALSE, Valid |-> FALSE]],
     [Score |-> [Float64 |-> <<64, 88, 176, 163, 215, 10, 61, 113>>, Valid |-> TRUE],
      Age |-> [Int64 |-> I64(12345), Valid |-> TRUE],
      CreatedAt |-> [Time |-> [sec |-> I64(-1), nsec |-> 999999999, loc |-> "Local"], Valid |-> TRUE],
      UpdatedAt |-> [Time |-> [sec |-> I64(1672531200), nsec |-> 0, loc |-> "UTC"], Valid |-> TRUE],
      Name |-> [String |-> <<74, 111>>, Valid |-> TRUE],
      Description |-> [String |-> <<1, 0, 200>>, Valid |-> TRUE],
      IsActive |-> [Bool |-> TRUE, Valid |-> TRUE]],
     [Score |-> [Float64 |-> <<63, 248, 0, 0, 0, 0, 0, 0>>, Valid |-> FALSE],
      Age |-> [Int64 |-> I64(7), Valid |-> FALSE],
      CreatedAt |-> [Time |-> [sec |-> I64(5), nsec |-> 5, loc |-> "Local"], Valid |-> FALSE],
      UpdatedAt |-> [Time |-> ZeroTime, Valid |-> FALSE],
      Name |-> [String |-> <<1>>, Valid |-> FALSE],
      Description |-> [String |-> <<>>, Valid |-> FALSE],
      IsActive |-> [Bool |-> TRUE, Valid |-> FALSE]],
     [Score |-> [Float64 |-> Zero64, Valid |-> TRUE],
      Age |-> [Int64 |-> MinInt64, Valid |-> FALSE],
      CreatedAt |-> [Time |-> ZeroTime, Valid |-> TRUE],
      UpdatedAt |-> [Time |-> [sec |-> I64(1), nsec |-> 1, loc |-> "UTC"], Valid |-> FALSE],
      Name |-> [String |-> <<>>, Valid |-> TRUE],
      Description |-> [String |-> <<0>>, Valid |-> TRUE],
      IsActive |-> [Bool |-> FALSE, Valid |-> TRUE]]}

Values(kind) ==
    CASE kind = "String"  -> [String : BinStrings, Valid : BOOLEAN]
      [] kind = "Int64"   -> [Int64 : Int64Values, Valid : BOOLEAN]
      [] kind = "Bool"    -> [Bool : BOOLEAN, Valid : BOOLEAN]
      [] kind = "Float64" -> [Float64 : Float64Values, Valid : BOOLEAN]
      [] kind = "Time"    -> [Time : TimeValues, Valid : BOOLEAN]
      [] kind = "Complex" -> ComplexValues

ScalarKinds == {"String", "Int64", "Bool", "Float64", "Time"}

\* every scalar in its Optimized form and behind its public wrapper, and the
\* composite record
BinTypes ==
    [kind : ScalarKinds, form : {"Optimized", "Public"}]
        \cup {[kind |-> "Complex", form |-> "Optimized"]}

\* byte strings handed to ReadFrom that no WriteTo produced
RawInputs == {<<0>>, <<0, 1>>, <<0, 1, 2, 0, 0, 0, 7, 7>>, <<2>>, <<3>>, <<255>>, <<2, 9>>}

(***************************************************************************)
(* WriteTo and ReadFrom of the type under test.  The public wrappers copy  *)
(* their fields into an Optimized value and call its WriteTo; their        *)
(* ReadFrom decodes into a fresh Optimized value and copies it back.       *)
(***************************************************************************)
WriteTo(t, v, plan) ==
    IF t.kind = "Complex" THEN OptimizedComplexStruct_WriteTo(v, plan, 0)
    ELSE ScalarWriteTo(t.kind, v, plan, 0)

PublicReadFrom(kind, v, s) ==
    CASE kind = "String"  -> NullString_ReadFrom(v, s)
      [] kind = "Int64"   -> NullInt64_ReadFrom(v, s)
      [] kind = "Bool"    -> NullBool_ReadFrom(v, s)
      [] kind = "Float64" -> NullFloat64_ReadFrom(v, s)
      [] kind = "Time"    -> CustomTime_ReadFrom(v, s)

ReadFrom(t, v, s) ==
    IF t.kind = "Complex" THEN OptimizedComplexStruct_ReadFrom(v, s)
    ELSE IF t.form = "Optimized" THEN ScalarReadFrom(t.kind, v, s)
    ELSE PublicReadFrom(t.kind, v, s)

NoPlan == [failAt |-> 0, accept |-> 0, sticky |-> FALSE]

\* the sinks worth telling apart for a value: the one that never fails, and
\* those failing at one of the Write calls the encoding takes
Plans(t, v) ==
    {NoPlan} \cup
    [failAt : 1..Len(WriteTo(t, v, NoPlan).calls), accept : 0..MaxAccept, sticky : BOOLEAN]

NoEnc == [phase |-> "none"]
NoDec == [phase |-> "none"]

\* the bytes x.WriteTo puts into a sink that takes everything
Encoding(t, x) == Accepted(WriteTo(t, x, NoPlan).calls)

(***************************************************************************)
(* Binary decoding as a state machine: a caller holds a target and decodes *)
(* one reader after the other into it.                                     *)
(***************************************************************************)
InitBin ==
    /\ typ \in BinTypes
    /\ tgt \in Values(typ.kind)
    /\ src = <<>>
    /\ enc = NoEnc
    /\ dec = NoDec
    /\ nreads = 0
    /\ PoolUnused

\* the composite target is decoded into MaxComplexDecodes times at most
MayDecode == typ.kind = "Complex" => nreads < MaxComplexDecodes

\* tgt.ReadFrom(r) on a reader r holding the first k bytes that x.WriteTo
\* emitted
DoReadFrom ==
    /\ MayDecode
    /\ \E x \in Values(typ.kind) : \E k \in 0..Len(Encoding(typ, x)) :
        LET input == SubSeq(Encoding(typ, x), 1, k)
            r == ReadFrom(typ, tgt, input)
        IN  /\ tgt' = r.tgt
            /\ src' = r.rest
            /\ dec' = [phase |-> "done", x |-> x, input |-> input,
                       whole |-> (k = Len(Encoding(typ, x))), raw |-> FALSE,
                       n |-> r.n, err |-> r.err]
    /\ nreads' = Min(nreads + 1, MaxComplexDecodes)
    /\ UNCHANGED <<typ, enc, pool, mu, thr, hist>>

\* tgt.ReadFrom(r) on a reader holding bytes of the caller's own
DoReadFromRaw ==
    /\ MayDecode
    /\ \E bs \in RawInputs :
        LET r == ReadFrom(typ, tgt, bs)
        IN  /\ tgt' = r.tgt
            /\ src' = r.rest
            /\ dec' = [phase |-> "done", x |-> ZeroValue(typ.kind), input |-> bs,
                       whole |-> FALSE, raw |-> TRUE, n |-> r.n, err |-> r.err]
    /\ nreads' = Min(nreads + 1, MaxComplexDecodes)
    /\ UNCHANGED <<typ, enc, pool, mu, thr, hist>>

NextBin == DoReadFrom \/ DoReadFromRaw

SpecBin == InitBin /\ [][NextBin]_vars

(***************************************************************************)
(* Text decoding as a state machine.  The caller takes a target, then      *)
(* either encodes a value and decodes the bytes it got, or decodes a text  *)
(* of its own.                                                             *)
(***************************************************************************)
\* string payloads: everything short over a, ", \, line feed and <, then a
\* control character, DEL, two-, three- and four-byte runes, U+2028, and
\* strings of 32 and 33 bytes, plain, ending in a rune, or with a quote
TextStrings ==
    SeqsUpTo({97, 34, 92, 10, 60}, MaxTextLen) \cup
    {<<1>>, <<127>>, <<195, 169>>, <<226, 130, 172>>, <<240, 159, 152, 128>>,
     <<226, 128, 168>>, <<97, 9, 98, 8, 13, 12, 38, 62>>,
     Repeat(97, 32), Repeat(97, 33), Repeat(97, 31) \o <<195, 169>>,
     Repeat(97, 30) \o <<226, 128, 168>>,
     <<34>> \o Repeat(98, 33)}

\* int64 payloads: the tiers of MarshalJSON, their boundaries, the extremes
TextInt64Values ==
    {I64(0), I64(7), I64(99), I64(100), I64(12345), I64(999999), I64(1000000),
     I64(-1), I64(-100), MaxInt64, MinInt64}

\* float64 payloads: 0, -0, 1.5, 0.25, 7, 99, 100, 250.5, 999.75, 1000,
\* -2, -0.75, 262144, the infinities and a NaN
TextFloat64Values ==
    {Zero64,
     <<128, 0, 0, 0, 0, 0, 0, 0>>,
     <<63, 248, 0, 0, 0, 0, 0, 0>>,
     <<63, 208, 0, 0, 0, 0, 0, 0>>,
     <<64, 28, 0, 0, 0, 0, 0, 0>>,
     <<64, 88, 192, 0, 0, 0, 0, 0>>,
     <<64, 89, 0, 0, 0, 0, 0, 0>>,
     <<64, 111, 80, 0, 0, 0, 0, 0>>,
     <<64, 143, 62, 0, 0, 0, 0, 0>>,
     <<64, 143, 64, 0, 0, 0, 0, 0>>,
     <<192, 0, 0, 0, 0, 0, 0, 0>>,
     <<191, 232, 0, 0, 0, 0, 0, 0>>,
     <<65, 16, 0, 0, 0, 0, 0, 0>>,
     <<127, 240, 0, 0, 0, 0, 0, 0>>,
     <<255, 240, 0, 0, 0, 0, 0, 0>>,
     <<127, 248, 0, 0, 0, 0, 0, 1>>}

\* instants: the epoch, the nanosecond before it on a clock five hours
\* behind, 2023-01-01 with a fraction in Tokyo, a leap day, the zero time,
\* and the last second of the year 9999
TextTimeValues ==
    {[sec |-> I64(0), nsec |-> 0, loc |-> "UTC"],
     [sec |-> I64(0), nsec |-> 999, loc |-> "UTC"],
     [sec |-> I64(-1), nsec |-> 999999999, loc |-> "EST"],
     [sec |-> I64(1672531200), nsec |-> 123456000, loc |-> "Asia/Tokyo"],
     [sec |-> I64(1709251199), nsec |-> 500000000, loc |-> "UTC"],
     ZeroTime,
     [sec |-> Dec64(<<50, 53, 51, 52, 48, 50, 51, 48, 48, 55, 57, 57>>), nsec |-> 0, loc |-> "UTC"]}

TextValues(kind) ==
    CASE kind = "String"  -> [String : TextStrings, Valid : BOOLEAN]
      [] kind = "Int64"   -> [Int64 : TextInt64Values, Valid : BOOLEAN]
      [] kind = "Bool"    -> [Bool : BOOLEAN, Valid : BOOLEAN]
      [] kind = "Float64" -> [Float64 : TextFloat64Values, Valid : BOOLEAN]
      [] kind = "Time"    -> [Time : TextTimeValues, Valid : BOOLEAN]

\* what a target may hold when a decode starts: nothing, a valid value, or a
\* payload under an invalid flag
TextTargets(kind) ==
    CASE kind = "String" -> {ZeroScalar(kind), [String |-> <<120>>, Valid |-> TRUE],
                             [String |-> <<120>>, Valid |-> FALSE]}
      [] kind = "Int64"  -> {ZeroScalar(kind), [Int64 |-> I64(5), Valid |-> TRUE],
                             [Int64 |-> I64(5), Valid |-> FALSE]}
      [] kind = "Bool"   -> {ZeroScalar(kind), [Bool |-> TRUE, Valid |-> TRUE],
                             [Bool |-> TRUE, Valid |-> FALSE]}

\* texts no MarshalJSON produced.  For int64: everything short over - 0 1 9
\* and the space, and the literals around the ends of the int64 range, with
\* leading zeros, a sign, a fraction, an exponent, a quoted number
IntLiterals ==
    {<<57, 50, 50, 51, 51, 55, 50, 48, 51, 54, 56, 53, 52, 55, 55, 53, 56, 48, 55>>,
     <<57, 50, 50, 51, 51, 55, 50, 48, 51, 54, 56, 53, 52, 55, 55, 53, 56, 48, 56>>,
     <<57, 50, 50, 51, 51, 55, 50, 48, 51, 54, 56, 53, 52, 55, 55, 53, 56, 48, 57>>,
     <<57, 50, 50, 51, 51, 55, 50, 48, 51, 54, 56, 53, 52, 55, 55, 53, 56, 49, 48>>,
     <<57, 50, 50, 51, 51, 55, 50, 48, 51, 54, 56, 53, 52, 55, 55, 53, 56, 48, 56, 48>>,
     <<48, 57, 50, 50, 51, 51, 55, 50, 48, 51, 54, 56, 53, 52, 55, 55, 53, 56, 48, 55>>,
     <<49, 56, 52, 52, 54, 55, 52, 52, 48, 55, 51, 55, 48, 57, 53, 53, 49, 54, 49, 54>>,
     <<45, 57, 50, 50, 51, 51, 55, 50, 48, 51, 54, 56, 53, 52, 55, 55, 53, 56, 48, 56>>,
     <<45, 57, 50, 50, 51, 51, 55, 50, 48, 51, 54, 56, 53, 52, 55, 55, 53, 56, 48, 57>>,
     <<45, 57, 50, 50, 51, 51, 55, 50, 48, 51, 54, 56, 53, 52, 55, 55, 53, 56, 48, 56, 48>>,
     nullJSON, <<32>> \o nullJSON, trueJSON, <<43, 53>>, <<49, 46, 48>>, <<49, 101, 50>>,
     <<34, 53, 34>>, <<49, 50, 51, 52, 53, 10>>, <<48, 120, 49, 48>>}

\* for strings: everything short over ", \, n and line feed, and literals
\* with every kind of escape, with raw bytes above 127, unterminated, bare
StringLiterals ==
    {nullJSON, <<32>> \o nullJSON, <<34, 97, 34, 32>>, <<32, 34, 97, 34>>, <<97, 98, 99>>,
     <<49, 50, 51>>, <<34, 97, 9, 98, 34>>, <<34, 255, 34>>, <<34, 195, 169, 34>>,
     <<34, 92, 117, 48, 48, 101, 57, 34>>, <<34, 92, 117, 50, 48, 50, 56, 34>>,
     <<34, 92, 117, 100, 56, 51, 100, 92, 117, 100, 101, 48, 48, 34>>,
     <<34, 92, 117, 100, 56, 51, 100, 34>>, <<34, 92, 117, 48, 48, 103, 48, 34>>,
     <<34, 92, 113, 34>>, <<34, 92, 47, 92, 98, 92, 102, 92, 114, 92, 116, 34>>,
     <<34, 97, 34, 98, 34>>, <<34, 97, 92, 34>>, trueJSON}

BoolLiterals ==
    {nullJSON, trueJSON, falseJSON, <<32>> \o trueJSON, falseJSON \o <<10>>, <<32>> \o nullJSON,
     <<84, 114, 117, 101>>, <<49>>, <<48>>, <<34, 116, 114, 117, 101, 34>>, <<116, 114, 117>>,
     <<>>, <<116, 114, 117, 101, 120>>}

RawTexts(kind) ==
    CASE kind = "String" -> SeqsUpTo({34, 92, 110, 10}, MaxInputLen) \cup StringLiterals
      [] kind = "Int64"  -> SeqsUpTo({45, 48, 49, 57, 32}, MaxInputLen) \cup IntLiterals
      [] kind = "Bool"   -> BoolLiterals

TextTypes == [kind : {"String", "Int64", "Bool"}, form : {"Optimized", "Public"}]

\* MarshalJSON: the public wrapper copies its fields into an Optimized value
MarshalJSON(t, v) ==
    CASE t.kind = "String"  -> OptimizedNullString_MarshalJSON(v)
      [] t.kind = "Int64"   -> OptimizedNullInt64_MarshalJSON(v)
      [] t.kind = "Bool"    -> OptimizedNullBool_MarshalJSON(v)
      [] t.kind = "Float64" -> OptimizedNullFloat64_MarshalJSON(v)
      [] t.kind = "Time"    -> OptimizedCustomTime_MarshalJSON(v)

\* UnmarshalJSON: the public wrapper decodes into a fresh Optimized value and
\* copies its fields back, whatever the error
UnmarshalJSON(t, v, b) ==
    IF t.form = "Optimized"
    THEN CASE t.kind = "String" -> OptimizedNullString_UnmarshalJSON(v, b)
           [] t.kind = "Int64"  -> OptimizedNullInt64_UnmarshalJSON(v, b)
           [] t.kind = "Bool"   -> OptimizedNullBool_UnmarshalJSON(v, b)
    ELSE CASE t.kind = "String" -> NullString_UnmarshalJSON(v, b)
           [] t.kind = "Int64"  -> NullInt64_UnmarshalJSON(v, b)
           [] t.kind = "Bool"   -> NullBool_UnmarshalJSON(v, b)

InitText ==
    /\ typ \in TextTypes
    /\ tgt \in TextTargets(typ.kind)
    /\ src = <<>>
    /\ enc = NoEnc
    /\ dec = NoDec
    /\ nreads = 0
    /\ PoolUnused

\* x.MarshalJSON()
DoMarshalForDecode ==
    /\ enc.phase = "none" /\ dec.phase = "none"
    /\ \E x \in TextValues(typ.kind) :
        LET m == MarshalJSON(typ, x)
        IN  enc' = [phase |-> "MarshalJSON", x |-> x, data |-> m.data, err |-> m.err]
    /\ UNCHANGED <<typ, tgt, src, dec, nreads, pool, mu, thr, hist>>

\* tgt.UnmarshalJSON(data) on the bytes the MarshalJSON call returned
DoUnmarshalJSON ==
    /\ enc.phase = "MarshalJSON" /\ enc.err = "nil" /\ dec.phase = "none"
    /\ LET u == UnmarshalJSON(typ, tgt, enc.data)
       IN  /\ tgt' = u.tgt
           /\ dec' = [phase |-> "done", x |-> enc.x, input |-> enc.data, whole |-> TRUE,
                      raw |-> FALSE, fresh |-> (tgt = ZeroScalar(typ.kind)), before |-> tgt,
                      err |-> u.err]
    /\ UNCHANGED <<typ, src, enc, nreads, pool, mu, thr, hist>>

\* tgt.UnmarshalJSON(b) on a text of the caller's own
DoUnmarshalRaw ==
    /\ enc.phase = "none" /\ dec.phase = "none"
    /\ \E b \in RawTexts(typ.kind) :
        LET u == UnmarshalJSON(typ, tgt, b)
        IN  /\ tgt' = u.tgt
            /\ dec' = [phase |-> "done", x |-> ZeroScalar(typ.kind), input |-> b,
                       whole |-> FALSE, raw |-> TRUE, fresh |-> (tgt = ZeroScalar(typ.kind)),
                       before |-> tgt, err |-> u.err]
    /\ UNCHANGED <<typ, src, enc, nreads, pool, mu, thr, hist>>

\* the caller turns to another target
NewTarget ==
    /\ dec.phase = "done"
    /\ tgt' \in TextTargets(typ.kind)
    /\ enc' = NoEnc
    /\ dec' = NoDec
    /\ UNCHANGED <<typ, src, nreads, pool, mu, thr, hist>>

NextText == DoMarshalForDecode \/ DoUnmarshalJSON \/ DoUnmarshalRaw \/ NewTarget

SpecText == InitText /\ [][NextText]_vars

(***************************************************************************)
(* time.Parse for the two layouts the decoder asks for, 2006-01-02 and     *)
(* 2006-01-02T15:04:05.999999999Z07:00.  A layout is consumed piece by     *)
(* piece and nothing may follow it; every failure is a *time.ParseError,   *)
(* and the time returned with it is the zero time.                         *)
(***************************************************************************)
DigitAt(s, i) == i >= 1 /\ i <= Len(s) /\ IsDigit(s[i])
ByteAt(s, i, c) == i >= 1 /\ i <= Len(s) /\ s[i] = c

\* the number the n digits from s[i] on spell
RECURSIVE Num(_, _, _)
Num(s, i, n) == IF n = 0 THEN 0 ELSE Num(s, i, n - 1) * 10 + (s[i + n - 1] - 48)

\* how many digits stand in a row from s[i] on
DigitsFrom(s, i) ==
    CHOOSE k \in 0..(Len(s) + 1 - i) :
        (\A j \in i..(i + k - 1) : IsDigit(s[j])) /\ ~DigitAt(s, i + k)

IsLeap(y) == y % 4 = 0 /\ (y % 100 # 0 \/ y % 400 = 0)
daysIn(m, y) ==
    IF m = 2 THEN (IF IsLeap(y) THEN 29 ELSE 28)
    ELSE IF m \in {4, 6, 9, 11} THEN 30 ELSE 31

\* the days from 1970-01-01 to the day d of the month m of the year y
DaysFromCivil(y, m, d) ==
    LET yy == IF m <= 2 THEN y - 1 ELSE y
        era == yy \div 400
        yoe == yy - era * 400
        doy == (153 * (IF m > 2 THEN m - 3 ELSE m + 9) + 2) \div 5 + d - 1
    IN  era * 146097 + (yoe * 365 + yoe \div 4 - yoe \div 100 + doy) - 719468

\* time.Date on the clock off seconds east of UTC: the second sod of the day
Date(y, m, d, sod, nsec, off, loc) ==
    [sec |-> Add64(MulAdd64(I64(DaysFromCivil(y, m, d)), 86400, sod), I64(-off)),
     nsec |-> nsec, loc |-> loc]

NoTime == [ok |-> FALSE, t |-> ZeroTime]

\* the pieces 2006-01-02 at the head of s: four digits, two and two, the
\* month one of the twelve
DateHead(s) ==
    /\ \A i \in {1, 2, 3, 4, 6, 7, 9, 10} : DigitAt(s, i)
    /\ ByteAt(s, 5, 45) /\ ByteAt(s, 8, 45)
    /\ Num(s, 6, 2) \in 1..12

\* the day is checked against the month once the layout is consumed
DayInRange(s) == Num(s, 9, 2) >= 1 /\ Num(s, 9, 2) <= daysIn(Num(s, 6, 2), Num(s, 1, 4))

\* time.Parse("2006-01-02", s): midnight UTC of the day
ParseDate(s) ==
    IF Len(s) = 10 /\ DateHead(s) /\ DayInRange(s)
    THEN [ok |-> TRUE,
          t |-> Date(Num(s, 1, 4), Num(s, 6, 2), Num(s, 9, 2), 0, 0, 0, "UTC")]
    ELSE NoTime

\* where the pieces after the T stand: the hour has one digit or two (hl),
\* the colon after it is at m, the seconds end before f; a fraction is a
\* period or a comma and k digits, however many; the zone starts at z
ClockLayout(s) ==
    LET hl == IF DigitAt(s, 13) THEN 2 ELSE 1
        f == 12 + hl + 6
        k == IF (ByteAt(s, f, 46) \/ ByteAt(s, f, 44)) /\ DigitAt(s, f + 1)
             THEN DigitsFrom(s, f + 1) ELSE 0
    IN  [hl |-> hl, m |-> 12 + hl, f |-> f, k |-> k,
         z |-> IF k = 0 THEN f ELSE f + 1 + k]

\* the hour, the minute and the second at their places, each in range
ClockOk(s, c) ==
    /\ ByteAt(s, 11, 84) /\ DigitAt(s, 12)
    /\ Num(s, 12, c.hl) < 24
    /\ ByteAt(s, c.m, 58) /\ DigitAt(s, c.m + 1) /\ DigitAt(s, c.m + 2)
    /\ Num(s, c.m + 1, 2) < 60
    /\ ByteAt(s, c.m + 3, 58) /\ DigitAt(s, c.m + 4) /\ DigitAt(s, c.m + 5)
    /\ Num(s, c.m + 4, 2) < 60

\* the zone is Z, or a sign, two digits, a colon and two digits, of at most
\* 24 hours and 60 minutes, and ends the text
ZoneOk(s, z) ==
    \/ ByteAt(s, z, 90) /\ Len(s) = z
    \/ /\ Len(s) = z + 5
       /\ s[z] \in {43, 45} /\ s[z + 3] = 58
       /\ \A i \in {z + 1, z + 2, z + 4, z + 5} : IsDigit(s[i])
       /\ Num(s, z + 1, 2) <= 24 /\ Num(s, z + 4, 2) <= 60

\* the seconds east of UTC the zone at s[z] names
ZoneSeconds(s, z) ==
    IF s[z] = 90 THEN 0
    ELSE (IF s[z] = 45 THEN -1 ELSE 1) * ((Num(s, z + 1, 2) * 60 + Num(s, z + 4, 2)) * 60)

\* the name of the Location of the result: UTC for Z, else that of a zone
\* made for the offset, which has the empty name (the machine's own zone
\* stands for it when that has the same offset at the instant)
ZoneOf(s, z) == IF s[z] = 90 THEN "UTC" ELSE ""

\* the nanoseconds of a fraction of k digits that starts after s[f]: its
\* first nine digits count
FracNanos(s, f, k) ==
    IF k = 0 THEN 0 ELSE Num(s, f + 1, Min(k, 9)) * (10 ^ (9 - Min(k, 9)))

ParsedClock(s, c) ==
    IF ClockOk(s, c) /\ ZoneOk(s, c.z) /\ DayInRange(s)
    THEN [ok |-> TRUE,
          t |-> Date(Num(s, 1, 4), Num(s, 6, 2), Num(s, 9, 2),
                     (Num(s, 12, c.hl) * 60 + Num(s, c.m + 1, 2)) * 60 + Num(s, c.m + 4, 2),
                     FracNanos(s, c.f, c.k), ZoneSeconds(s, c.z), ZoneOf(s, c.z))]
    ELSE NoTime

\* time.Parse(time.RFC3339Nano, s)
ParseRFC3339Nano(s) == IF DateHead(s) THEN ParsedClock(s, ClockLayout(s)) ELSE NoTime

(***************************************************************************)
(* encoding/json on a whole text: the scanner that checks it, and the      *)
(* decoding of a TimeResponse and of a float64.                            *)
(***************************************************************************)
\* the last byte of the string literal that starts at t[i], 0 if the literal
\* is not closed or holds a raw control byte or a wrong escape
StringEndAt(t, i, e) == IF e # 0 /\ Unquote(SubSeq(t, i, e)).ok THEN e ELSE 0
StringEnd(t, i) == StringEndAt(t, i, TokenEnd(t, i))

\* the pieces of the number literal at t[i]: a minus sign, the digits from
\* t[a] on (a lone 0, or ni digits that start with no 0), a period and nf
\* digits, an e or E, a sign and ne digits from t[e0] on
\* how many hexadecimal digits stand at s[i] and after
HexDigitsFrom(s, i) ==
    CHOOSE k \in 0..(Len(s) + 1 - i) :
        /\ \A j \in i..(i + k - 1) : HexVal(s[j]) >= 0
        /\ ~(i + k <= Len(s) /\ HexVal(s[i + k]) >= 0)

\* the exponent mark at t[c]: e or E, and p or P after hexadecimal digits
HasE(t, g, c) ==
    IF g = "hex" THEN ByteAt(t, c, 112) \/ ByteAt(t, c, 80)
    ELSE ByteAt(t, c, 101) \/ ByteAt(t, c, 69)
\* the pieces, of which the digits before the period are known, in the
\* grammar g: "json", where digits stand on both sides of a period;
\* "strconv", where they stand on one side at least and the text ends with
\* the number; "hex", that of strconv after 0x, where the digits are
\* hexadecimal and the exponent has to be there
PartsRecord(t, g, neg, a, ni, nf, c, sg, ne) ==
    [ok |-> IF g = "json"
            THEN ni > 0 /\ (ByteAt(t, a + ni, 46) => nf > 0) /\ (HasE(t, g, c) => ne > 0)
            ELSE /\ ni + nf > 0 /\ (HasE(t, g, c) => ne > 0)
                 /\ (g = "hex" => HasE(t, g, c))
                 /\ (IF HasE(t, g, c) THEN c + sg + ne ELSE c - 1) = Len(t),
     neg |-> neg, a |-> a, ni |-> ni, nf |-> nf,
     eneg |-> HasE(t, g, c) /\ ByteAt(t, c + 1, 45), e0 |-> c + 1 + sg, ne |-> ne,
     end |-> IF HasE(t, g, c) THEN c + sg + ne ELSE c - 1]
PartsSigned(t, g, neg, a, ni, nf, c, sg) ==
    PartsRecord(t, g, neg, a, ni, nf, c, sg,
                IF HasE(t, g, c) THEN DigitsFrom(t, c + 1 + sg) ELSE 0)
PartsExponent(t, g, neg, a, ni, nf, c) ==
    PartsSigned(t, g, neg, a, ni, nf, c,
                IF HasE(t, g, c) /\ (ByteAt(t, c + 1, 43) \/ ByteAt(t, c + 1, 45))
                THEN 1 ELSE 0)
PartsFraction(t, g, neg, a, ni, nf) ==
    PartsExponent(t, g, neg, a, ni, nf,
                  IF ByteAt(t, a + ni, 46) THEN a + ni + 1 + nf ELSE a + ni)
PartsFrom(t, g, neg, a, ni) ==
    PartsFraction(t, g, neg, a, ni,
                  IF ~ByteAt(t, a + ni, 46) THEN 0
                  ELSE IF g = "hex" THEN HexDigitsFrom(t, a + ni + 1)
                  ELSE DigitsFrom(t, a + ni + 1))

AfterMinus(t, i) == IF ByteAt(t, i, 45) THEN i + 1 ELSE i
NumberParts(t, i) ==
    PartsFrom(t, "json", ByteAt(t, i, 45), AfterMinus(t, i),
              IF ByteAt(t, AfterMinus(t, i), 48) THEN 1 ELSE DigitsFrom(t, AfterMinus(t, i)))

NumberEndOf(p) == IF p.ok THEN p.end ELSE 0
NumberEnd(t, i) == NumberEndOf(NumberParts(t, i))

\* the literal lit stands at t[i]
LiteralAt(t, i, lit) == i + Len(lit) - 1 <= Len(t) /\ SubSeq(t, i, i + Len(lit) - 1) = lit

\* the last byte of the value that starts at t[i], 0 if there is no value:
\* a string, an object, an array, one of the three literals, or a number
RECURSIVE ValueEnd(_, _)
RECURSIVE MembersEnd(_, _)
RECURSIVE ElementsEnd(_, _)
ValueEnd(t, i) ==
    IF i > Len(t) THEN 0
    ELSE IF t[i] = 34 THEN StringEnd(t, i)
    ELSE IF t[i] = 123
    THEN IF ByteAt(t, SkipSpace(t, i + 1), 125) THEN SkipSpace(t, i + 1)
         ELSE MembersEnd(t, SkipSpace(t, i + 1))
    ELSE IF t[i] = 91
    THEN IF ByteAt(t, SkipSpace(t, i + 1), 93) THEN SkipSpace(t, i + 1)
         ELSE ElementsEnd(t, SkipSpace(t, i + 1))
    ELSE IF LiteralAt(t, i, nullJSON) \/ LiteralAt(t, i, trueJSON) THEN i + 3
    ELSE IF LiteralAt(t, i, falseJSON) THEN i + 4
    ELSE NumberEnd(t, i)

\* the closing brace of the object whose next member starts at t[i]
AfterMember(t, ve) ==
    IF ve = 0 THEN 0
    ELSE IF ByteAt(t, SkipSpace(t, ve + 1), 125) THEN SkipSpace(t, ve + 1)
    ELSE IF ByteAt(t, SkipSpace(t, ve + 1), 44)
    THEN MembersEnd(t, SkipSpace(t, SkipSpace(t, ve + 1) + 1))
    ELSE 0
AfterKey(t, ke) ==
    AfterMember(t, IF ke # 0 /\ ByteAt(t, SkipSpace(t, ke + 1), 58)
                   THEN ValueEnd(t, SkipSpace(t, SkipSpace(t, ke + 1) + 1)) ELSE 0)
MembersEnd(t, i) == AfterKey(t, IF ByteAt(t, i, 34) THEN StringEnd(t, i) ELSE 0)

\* the closing bracket of the array whose next element starts at t[i]
AfterElement(t, ve) ==
    IF ve = 0 THEN 0
    ELSE IF ByteAt(t, SkipSpace(t, ve + 1), 93) THEN SkipSpace(t, ve + 1)
    ELSE IF ByteAt(t, SkipSpace(t, ve + 1), 44)
    THEN ElementsEnd(t, SkipSpace(t, SkipSpace(t, ve + 1) + 1))
    ELSE 0
ElementsEnd(t, i) == AfterElement(t, ValueEnd(t, i))

\* checkValid: one value, with nothing but white space around it
IsValidJSON(b) == Trim(b) # <<>> /\ ValueEnd(Trim(b), 1) = Len(Trim(b))

\* the letters of ASCII lowered
Fold(k) == [i \in 1..Len(k) |-> IF k[i] >= 65 /\ k[i] <= 90 THEN k[i] + 32 ELSE k[i]]

\* the name of a key as the decoder matches it with a field, under Unicode
\* case folding: letters of either case, the long s (U+017F, the bytes
\* 197 191) for s and the Kelvin sign (U+212A, the bytes 226 132 170) for k
RECURSIVE FoldNameFrom(_, _)
FoldNameFrom(k, i) ==
    IF i > Len(k) THEN <<>>
    ELSE IF k[i] = 197 /\ ByteAt(k, i + 1, 191) THEN <<115>> \o FoldNameFrom(k, i + 2)
    ELSE IF k[i] = 226 /\ ByteAt(k, i + 1, 132) /\ ByteAt(k, i + 2, 170)
    THEN <<107>> \o FoldNameFrom(k, i + 3)
    ELSE <<IF k[i] >= 65 /\ k[i] <= 90 THEN k[i] + 32 ELSE k[i]>> \o FoldNameFrom(k, i + 1)
FoldName(k) == FoldNameFrom(k, 1)

isoField == <<105, 115, 111>>
stringFields == {isoField, <<116, 122>>}
intFields == {<<117, 110, 105, 120>>, <<117, 110, 105, 120, 109, 115>>, <<117, 115>>}
fullField == <<102, 117, 108, 108>>

\* whether the value val suits the field a key names: a string for iso and
\* tz, an integer an int64 holds for unix, unixms and us, such an integer in
\* quotes for full (the option "string": what stands in the quotes begins
\* with a digit or a minus sign and strconv.ParseInt takes it, leading zeros
\* included), and null for each; a key that
\* names no field suits
QuotedIntOk(u) ==
    u = nullJSON \/ (u # <<>> /\ (u[1] = 45 \/ IsDigit(u[1])) /\ ParseInt(u).err = "nil")
FieldOk(key, val) ==
    IF val = nullJSON THEN TRUE
    ELSE IF FoldName(key) \in stringFields THEN val[1] = 34
    ELSE IF FoldName(key) \in intFields THEN JsonUnmarshalInt64(val).err = "nil"
    ELSE IF FoldName(key) = fullField THEN val[1] = 34 /\ QuotedIntOk(Unquote(val).val)
    ELSE TRUE

\* the TimeResponse after the member key: val
FieldSet(st, key, val) ==
    [err |-> IF st.err = "nil" /\ ~FieldOk(key, val) THEN "json" ELSE st.err,
     ISO |-> IF FoldName(key) = isoField /\ val[1] = 34 THEN Unquote(val).val ELSE st.ISO]

\* the members of the checked object t from the one that starts at t[i]: the
\* first value that does not suit its field is the error, and the decoding
\* goes on
RECURSIVE DecodeMembers(_, _, _)
DecodeNext(t, ve, st) ==
    IF t[SkipSpace(t, ve + 1)] = 125 THEN st
    ELSE DecodeMembers(t, SkipSpace(t, SkipSpace(t, ve + 1) + 1), st)
DecodeValue(t, st, key, v, ve) == DecodeNext(t, ve, FieldSet(st, key, SubSeq(t, v, ve)))
DecodeFrom(t, st, key, v) == DecodeValue(t, st, key, v, ValueEnd(t, v))
DecodeMember(t, i, st, ke) ==
    DecodeFrom(t, st, Unquote(SubSeq(t, i, ke)).val, SkipSpace(t, SkipSpace(t, ke + 1) + 1))
DecodeMembers(t, i, st) == DecodeMember(t, i, st, StringEnd(t, i))

\* json.Unmarshal(b, &tr) for a zero TimeResponse tr: the error and tr.ISO.
\* An object fills the fields its keys name; null changes nothing; any other
\* value does not fit a struct
JsonUnmarshalTimeResponse(b) ==
    IF ~IsValidJSON(b) THEN [err |-> "json", ISO |-> <<>>]
    ELSE IF Trim(b) = nullJSON THEN [err |-> "nil", ISO |-> <<>>]
    ELSE IF Trim(b)[1] # 123 THEN [err |-> "json", ISO |-> <<>>]
    ELSE IF SkipSpace(Trim(b), 2) = Len(Trim(b)) THEN [err |-> "nil", ISO |-> <<>>]
    ELSE DecodeMembers(Trim(b), SkipSpace(Trim(b), 2), [err |-> "nil", ISO |-> <<>>])

(***************************************************************************)
(* The text decoder of OptimizedCustomTime.                                *)
(***************************************************************************)
\* an unsigned 64-bit number split as 10^9 * q + r, by three divisions by 1000
DivMod1e9(u) ==
    [q |-> UDiv(UDiv(UDiv(u, 1000), 1000), 1000),
     r |-> UMod(u, 1000) + 1000 * UMod(UDiv(u, 1000), 1000)
               + 1000000 * UMod(UDiv(UDiv(u, 1000), 1000), 1000)]

\* time.Unix(0, nsec) for d the split of |nsec|: the division truncates
\* toward zero, and a negative rest is made up from the seconds
UnixNanosFrom(neg, d) ==
    IF ~neg THEN [sec |-> d.q, nsec |-> d.r, loc |-> "Local"]
    ELSE IF d.r = 0 THEN [sec |-> Neg64(d.q), nsec |-> 0, loc |-> "Local"]
    ELSE [sec |-> Add64(Neg64(d.q), I64(-1)), nsec |-> 1000000000 - d.r, loc |-> "Local"]

TimeUnixNanos(nsec) ==
    UnixNanosFrom(IsNeg64(nsec), DivMod1e9(IF IsNeg64(nsec) THEN Neg64(nsec) ELSE nsec))

\* isSimpleNumber: no byte of b is anything but a digit
IsSimpleNumber(b) == \A i \in 1..Len(b) : IsDigit(b[i])

\* the digit loop of the decoder: timestamp = timestamp*10 + digit, left as
\* soon as timestamp exceeds MaxInt64/10
TimestampOf(b) == AccumulateDigits(b, [i |-> 1, result |-> Zero64], Rounds(Len(b))).result

\* timestamp*int64(time.Millisecond), wrapping as Go's int64 does
MillisToNanos(timestamp) == MulAdd64(timestamp, 1000000, 0)

\* how many zeros stand at the head of the digits ds
LeadingZeros(ds) ==
    CHOOSE k \in 0..Len(ds) :
        (\A j \in 1..k : ds[j] = 48) /\ (k = Len(ds) \/ ds[k + 1] # 48)

\* the exponent of the number literal with the pieces p: none is 0, and one
\* of more than four digits counts as 9999
ExponentOf(t, p) ==
    (IF p.eneg THEN -1 ELSE 1) *
    (IF p.ne - LeadingZeros(SubSeq(t, p.e0, p.e0 + p.ne - 1)) > 4 THEN 9999
     ELSE Num(t, p.e0, p.ne))

\* the number literal as sign, digits M and point: it stands for 0.M times
\* 10^p10, M starting and ending with no zero (M is empty for zero)
ShapeFrom(neg, ds, point) ==
    [neg |-> neg,
     M |-> TrimZeros(SubSeq(ds, LeadingZeros(ds) + 1, Len(ds))),
     p10 |-> point - LeadingZeros(ds)]
FloatShape(t, p) ==
    ShapeFrom(p.neg,
              SubSeq(t, p.a, p.a + p.ni - 1) \o SubSeq(t, p.a + p.ni + 1, p.a + p.ni + p.nf),
              p.ni + ExponentOf(t, p))

\* the digits of the whole part of 0.M times 10^p10, for p10 above 0
WholeDigits(sh) == [i \in 1..sh.p10 |-> IF i <= Len(sh.M) THEN sh.M[i] ELSE 48]

TwoTo63 == <<57, 50, 50, 51, 51, 55, 50, 48, 51, 54, 56, 53, 52, 55, 55, 53, 56, 48, 56>>

\* int64(f) for a float64 f of 2^63 or more, or below -2^63, which no int64
\* holds: the result depends on the processor the program was built for
Int64OfHugeFloat(arch) == IF arch = "amd64" THEN MinInt64 ELSE MaxInt64

\* strconv.ParseFloat of the number literal and the conversion int64(f) of
\* the result, which drops the fraction.  A literal of at most 15 digits and
\* a whole part of at most 15 is a float64 whose whole part is that of the
\* literal; a literal of 2^63 or more is a float64 of 2^63 or more; one of
\* 10^309 or more is out of the range of float64, an error.  (Literals
\* between, where the rounding decides, are not converted here.)
TruncFloat(sh, arch) ==
    CASE sh.M = <<>> -> [err |-> "nil", val |-> Zero64]
      [] sh.M # <<>> /\ sh.p10 >= 310 -> [err |-> "json", val |-> Zero64]
      [] sh.M # <<>> /\ sh.p10 <= 0 /\ Len(sh.M) <= 15 -> [err |-> "nil", val |-> Zero64]
      [] sh.M # <<>> /\ sh.p10 \in 1..15 /\ Len(sh.M) <= 15 ->
            [err |-> "nil",
             val |-> IF sh.neg THEN Neg64(Dec64(WholeDigits(sh))) ELSE Dec64(WholeDigits(sh))]
      [] sh.M # <<>> /\ sh.p10 \in 19..308
                     /\ (sh.p10 = 19 => ~StrLess(WholeDigits(sh), TwoTo63)) ->
            [err |-> "nil", val |-> IF sh.neg THEN MinInt64 ELSE Int64OfHugeFloat(arch)]

\* json.Unmarshal(b, &floatUnixms) and int64(floatUnixms): a number is
\* parsed, null leaves the 0, anything else is an error
JsonUnmarshalFloatMillis(b, arch) ==
    IF ~IsValidJSON(b) THEN [err |-> "json", val |-> Zero64]
    ELSE IF Trim(b) = nullJSON THEN [err |-> "nil", val |-> Zero64]
    ELSE IF Trim(b)[1] = 45 \/ IsDigit(Trim(b)[1])
    THEN TruncFloat(FloatShape(Trim(b), NumberParts(Trim(b), 1)), arch)
    ELSE [err |-> "json", val |-> Zero64]

\* the decode has found the instant t
TimeSet(t) == [tgt |-> [Time |-> t, Valid |-> TRUE], err |-> "nil"]

\* the text decoded as a TimeResponse tr with an ISO: that is the time, or
\* the error of its parse.  A text in quotes with s between them: a date, or
\* a full RFC 3339 time, or else the text decoded as a TimeResponse, which a
\* text in quotes never is, so that the error of the second parse returns
IsoTime(ct, p) == IF p.ok THEN TimeSet(p.t) ELSE [tgt |-> ct, err |-> "parse"]
QuotedOther(ct, pr, tr) ==
    IF pr.ok THEN TimeSet(pr.t)
    ELSE IF tr.err = "nil" /\ tr.ISO # <<>> THEN IsoTime(ct, ParseRFC3339Nano(tr.ISO))
    ELSE [tgt |-> ct, err |-> "parse"]
QuotedAfterDate(ct, s, pd, tr) ==
    IF pd.ok THEN TimeSet(pd.t) ELSE QuotedOther(ct, ParseRFC3339Nano(s), tr)
QuotedTime(ct, s, tr) == QuotedAfterDate(ct, s, ParseDate(s), tr)

\* the last rule: the text as a float64 of milliseconds
FloatTime(ct, f) ==
    IF f.err = "nil" THEN TimeSet(TimeUnixNanos(MillisToNanos(f.val)))
    ELSE [tgt |-> ct, err |-> "invalid time format"]

\* the rules after the digits
UnmarshalOther(ct, b, arch, tr) ==
    IF Len(b) > 2 /\ b[1] = 34 /\ b[Len(b)] = 34
    THEN QuotedTime(ct, SubSeq(b, 2, Len(b) - 1), tr)
    ELSE IF tr.err = "nil" /\ tr.ISO # <<>> THEN IsoTime(ct, ParseRFC3339Nano(tr.ISO))
    ELSE FloatTime(ct, JsonUnmarshalFloatMillis(b, arch))

\* UnmarshalJSON.  null clears Valid and leaves Time.  Digits that ParseInt
\* takes, with the value the digit loop found, are milliseconds since the
\* epoch.  Every other text goes through the rules that follow
OptimizedCustomTime_UnmarshalJSON(ct, b, arch) ==
    IF isNullJSON(b) THEN [tgt |-> [ct EXCEPT !.Valid = FALSE], err |-> "nil"]
    ELSE IF /\ IsSimpleNumber(b) /\ Len(b) > 0
            /\ ParseInt(b).err = "nil" /\ ParseInt(b).val = TimestampOf(b)
    THEN [tgt |-> [Time |-> TimeUnixNanos(MillisToNanos(TimestampOf(b))), Valid |-> TRUE],
          err |-> "nil"]
    ELSE UnmarshalOther(ct, b, arch, JsonUnmarshalTimeResponse(b))

\* the public wrapper decodes into a fresh Optimized value and copies Time
\* and Valid back, whatever the error
CustomTime_UnmarshalJSON(ct, b, arch) ==
    OptimizedCustomTime_UnmarshalJSON(ZeroScalar("Time"), b, arch)

(***************************************************************************)
(* strconv.ParseFloat and the text decoder of OptimizedNullFloat64.  The   *)
(* values are zero, the infinities, NaN and the quarters q/4 with q below  *)
(* 2^21, as in the encoder.                                                *)
(***************************************************************************)
PosInf == <<127, 240, 0, 0, 0, 0, 0, 0>>
NegInf == <<255, 240, 0, 0, 0, 0, 0, 0>>
NaN == <<127, 248, 0, 0, 0, 0, 0, 1>>
NegZero == <<128, 0, 0, 0, 0, 0, 0, 0>>

\* the float64 q/4, negated when neg, for q from 1 to 2^21 - 1: msb is the
\* place of the highest bit of q and top is q shifted to 21 bits
QuartersBits(neg, msb, top) ==
    <<(IF neg THEN 128 ELSE 0) + (1021 + msb) \div 16,
      ((1021 + msb) % 16) * 16 + (top - 1048576) \div 65536,
      ((top - 1048576) \div 256) % 256, (top - 1048576) % 256, 0, 0, 0, 0>>
HighBit(q) == CHOOSE k \in 0..20 : 2 ^ k <= q /\ q < 2 ^ (k + 1)
FloatOfQuarters(neg, q) == QuartersBits(neg, HighBit(q), q * (2 ^ (20 - HighBit(q))))

\* float64(val) for an int val
FloatOfInt(neg, val) == IF val = 0 THEN Zero64 ELSE FloatOfQuarters(neg, 4 * val)

\* the pieces of the decimal text s as strconv reads it: a sign, digits with
\* at most one period before, among or after them, and an exponent; ok when
\* there is a digit, the exponent if any has one, and the text ends there
AfterSign(s) == IF ByteAt(s, 1, 43) \/ ByteAt(s, 1, 45) THEN 2 ELSE 1
FloatParts(s) ==
    PartsFrom(s, "strconv", ByteAt(s, 1, 45), AfterSign(s), DigitsFrom(s, AfterSign(s)))

\* the same after the base prefix 0x or 0X, which needs a byte after it
IsHexText(s) ==
    /\ AfterSign(s) + 2 <= Len(s)
    /\ s[AfterSign(s)] = 48 /\ s[AfterSign(s) + 1] \in {120, 88}
HexParts(s) ==
    PartsFrom(s, "hex", ByteAt(s, 1, 45), AfterSign(s) + 2,
              HexDigitsFrom(s, AfterSign(s) + 2))

\* underscoreOK: after the sign and the base prefix 0b, 0o or 0x, an
\* underscore stands between two digits (hexadecimal ones after 0x), or
\* between the base prefix and a digit
IsBaseLetter(c) == c \in {98, 66, 111, 79, 120, 88}
NumDigit(c, hex) == IsDigit(c) \/ (hex /\ HexVal(c) >= 0)
UnderscoresFrom(s, start, pre, hex) ==
    \A j \in start..Len(s) :
        s[j] = 95 => /\ j + 1 <= Len(s) /\ NumDigit(s[j + 1], hex)
                     /\ IF j = start THEN pre ELSE NumDigit(s[j - 1], hex)
UnderscoresAfter(s, a, pre) ==
    UnderscoresFrom(s, IF pre THEN a + 2 ELSE a, pre, pre /\ s[a + 1] \in {120, 88})
UnderscoreOK(s) ==
    UnderscoresAfter(s, AfterSign(s),
                     /\ AfterSign(s) + 1 <= Len(s) /\ s[AfterSign(s)] = 48
                     /\ IsBaseLetter(s[AfterSign(s) + 1]))
HasUnderscore(s) == \E j \in 1..Len(s) : s[j] = 95
NotUnderscore(c) == c # 95
WithoutUnderscores(s) == SelectSeq(s, NotUnderscore)

\* the quarters in 0.M times 10^p10, when that is a multiple of 1/4 below
\* 2^19: the whole part, and a fraction that is absent, .25, .5 or .75
FractionOf(sh) == SubSeq(sh.M, sh.p10 + 1, Len(sh.M))
IsQuarters(sh) ==
    /\ sh.M # <<>> /\ sh.p10 >= 0 /\ sh.p10 <= 6
    /\ FractionOf(sh) \in {<<>>, <<50, 53>>, <<53>>, <<55, 53>>}
    /\ (sh.p10 > 0 => Num(WholeDigits(sh), 1, sh.p10) < 524288)
QuartersOf(sh) ==
    4 * (IF sh.p10 = 0 THEN 0 ELSE Num(WholeDigits(sh), 1, sh.p10)) +
    (CASE FractionOf(sh) = <<>> -> 0
       [] FractionOf(sh) = <<50, 53>> -> 1
       [] FractionOf(sh) = <<53>> -> 2
       [] FractionOf(sh) = <<55, 53>> -> 3)

\* the float64 nearest to the decimal: a zero keeps its sign, a number of
\* 10^309 or more is out of range.  (Decimals that are no multiple of 1/4
\* below 2^19 are not converted here.)
FloatValue(sh) ==
    CASE sh.M = <<>> -> [err |-> "nil", val |-> IF sh.neg THEN NegZero ELSE Zero64]
      [] sh.M # <<>> /\ sh.p10 >= 310 ->
            [err |-> "range", val |-> IF sh.neg THEN NegInf ELSE PosInf]
      [] IsQuarters(sh) -> [err |-> "nil", val |-> FloatOfQuarters(sh.neg, QuartersOf(sh))]

\* the names strconv takes beside the decimals, in letters of either case:
\* inf and infinity, with a sign or none, and nan
IsInfName(s) ==
    \/ Fold(s) \in {<<105, 110, 102>>, <<105, 110, 102, 105, 110, 105, 116, 121>>}
    \/ /\ s # <<>> /\ s[1] \in {43, 45}
       /\ Fold(Tail(s)) \in {<<105, 110, 102>>, <<105, 110, 102, 105, 110, 105, 116, 121>>}
IsNaNName(s) == Fold(s) = <<110, 97, 110>>

FloatOfParts(s, p) ==
    IF ~p.ok THEN [err |-> "syntax", val |-> Zero64] ELSE FloatValue(FloatShape(s, p))

\* the number base 16 of the n hexadecimal digits from s[i] on
RECURSIVE HexNum(_, _, _)
HexNum(s, i, n) == IF n = 0 THEN 0 ELSE HexNum(s, i, n - 1) * 16 + HexVal(s[i + n - 1])

\* the float64 m times 2^(e2 - 2), for m below 2^28: zero keeps its sign, a
\* number of 2^1024 or more is out of range, the others are the quarters
\* m times 2^e2.  (Numbers that are no multiple of 1/4 below 2^19 are not
\* converted here.)
HexValue(neg, m, e2) ==
    CASE m = 0 -> [err |-> "nil", val |-> IF neg THEN NegZero ELSE Zero64]
      [] m > 0 /\ e2 >= 1026 -> [err |-> "range", val |-> IF neg THEN NegInf ELSE PosInf]
      [] m > 0 /\ e2 >= 0 /\ e2 <= 20 /\ m < 2 ^ (21 - e2) ->
            [err |-> "nil", val |-> FloatOfQuarters(neg, m * (2 ^ e2))]
      [] m > 0 /\ e2 < 0 /\ e2 >= -27 /\ m % (2 ^ (0 - e2)) = 0
               /\ m \div (2 ^ (0 - e2)) < 2097152 ->
            [err |-> "nil", val |-> FloatOfQuarters(neg, m \div (2 ^ (0 - e2)))]
\* the hexadecimal mantissa of at most seven digits times 2 to the exponent
HexOfParts(s, p) ==
    IF ~p.ok THEN [err |-> "syntax", val |-> Zero64]
    ELSE HexValue(p.neg,
                  HexNum(s, p.a, p.ni) * (16 ^ p.nf) + HexNum(s, p.a + p.ni + 1, p.nf),
                  ExponentOf(s, p) - 4 * p.nf + 2)

\* the text with no underscore: hexadecimal after 0x, decimal otherwise
ParsePlain(s) ==
    IF IsHexText(s) THEN HexOfParts(s, HexParts(s)) ELSE FloatOfParts(s, FloatParts(s))

\* strconv.ParseFloat(s, 64): the names, then the number, in which
\* underscores may separate digits
ParseFloat(s) ==
    IF IsInfName(s) THEN [err |-> "nil", val |-> IF s[1] = 45 THEN NegInf ELSE PosInf]
    ELSE IF IsNaNName(s) THEN [err |-> "nil", val |-> NaN]
    ELSE IF HasUnderscore(s) /\ ~UnderscoreOK(s) THEN [err |-> "syntax", val |-> Zero64]
    ELSE ParsePlain(WithoutUnderscores(s))

\* json.Unmarshal(b, &f) for a float64 f that is 0 before: a number literal
\* is parsed, null leaves the 0, anything else is an error
JsonNumber(f) == IF f.err = "nil" THEN f ELSE [err |-> "json", val |-> Zero64]
JsonUnmarshalFloat64(b) ==
    IF ~IsValidJSON(b) THEN [err |-> "json", val |-> Zero64]
    ELSE IF Trim(b) = nullJSON THEN [err |-> "nil", val |-> Zero64]
    ELSE IF Trim(b)[1] = 45 \/ IsDigit(Trim(b)[1]) THEN JsonNumber(ParseFloat(Trim(b)))
    ELSE [err |-> "json", val |-> Zero64]

\* isSimpleNumber after the loop: a minus sign is followed by something, and
\* the bytes from startIdx on are digits and at most one period
StartIdx(b) == IF b[1] = 45 THEN 1 ELSE 0
IsSimpleFloat(b) ==
    /\ Len(b) > StartIdx(b)
    /\ \A i \in (StartIdx(b) + 1)..Len(b) : IsDigit(b[i]) \/ b[i] = 46
    /\ Cardinality({i \in (StartIdx(b) + 1)..Len(b) : b[i] = 46}) <= 1
HasDecimal(b) == \E i \in (StartIdx(b) + 1)..Len(b) : b[i] = 46
\* decimalPos, counted from 0
DecimalPos(b) == (CHOOSE i \in (StartIdx(b) + 1)..Len(b) : b[i] = 46) - 1

FloatSet(f) == [tgt |-> [Float64 |-> f, Valid |-> TRUE], err |-> "nil"]

\* the standard parsing: strconv.ParseFloat, and json.Unmarshal for what
\* that refuses
FloatFallback(nf, j) == IF j.err = "nil" THEN FloatSet(j.val) ELSE [tgt |-> nf, err |-> "json"]
FloatStandard(nf, b, f) ==
    IF f.err = "nil" THEN FloatSet(f.val) ELSE FloatFallback(nf, JsonUnmarshalFloat64(b))

\* UnmarshalJSON.  null clears Valid and leaves Float64.  One digit is its
\* value.  A zero-length b is indexed at b[0].  A simple number with no
\* period and at most two digits is counted as an int and converted; one
\* with a period, at most two digits after it and at most five bytes goes
\* to strconv.ParseFloat, and so does everything else
FloatDecoded(nf, b, f) ==
    IF isNullJSON(b) THEN [tgt |-> [nf EXCEPT !.Valid = FALSE], err |-> "nil"]
    ELSE IF Len(b) = 1 /\ IsDigit(b[1]) THEN FloatSet(FloatOfInt(FALSE, b[1] - 48))
    ELSE IF Len(b) = 0 THEN [tgt |-> nf, err |-> "panic"]
    ELSE IF IsSimpleFloat(b) /\ ~HasDecimal(b) /\ Len(b) <= 2 + StartIdx(b)
    THEN FloatSet(FloatOfInt(StartIdx(b) > 0, Num(b, StartIdx(b) + 1, Len(b) - StartIdx(b))))
    ELSE IF /\ IsSimpleFloat(b) /\ HasDecimal(b) /\ Len(b) <= 5 + StartIdx(b)
            /\ Len(b) - DecimalPos(b) - 1 <= 2 /\ f.err = "nil"
    THEN FloatSet(f.val)
    ELSE FloatStandard(nf, b, f)
OptimizedNullFloat64_UnmarshalJSON(nf, b) == FloatDecoded(nf, b, ParseFloat(b))

\* the public wrapper decodes into a fresh Optimized value and copies
\* Float64 and Valid back, whatever the error; a panic leaves it no time to
CopiedBack(nf, r) == IF r.err = "panic" THEN [tgt |-> nf, err |-> "panic"] ELSE r
NullFloat64_UnmarshalJSON(nf, b) ==
    CopiedBack(nf, OptimizedNullFloat64_UnmarshalJSON(ZeroScalar("Float64"), b))

\* the texts of digits: the short ones over 0, 1 and 9, the empty text, a
\* date of 2023 in milliseconds, the largest count of milliseconds whose
\* nanoseconds an int64 holds and the next one, 10^13, the ends of the int64
\* range, leading zeros, twenty digits
DigitTexts ==
    (SeqsUpTo({48, 49, 57}, MaxInputLen) \cup
     {<<49, 54, 55, 50, 53, 51, 49, 50, 48, 48, 49, 50, 51>>,
      <<57, 50, 50, 51, 51, 55, 50, 48, 51, 54, 56, 53, 52>>,
      <<57, 50, 50, 51, 51, 55, 50, 48, 51, 54, 56, 53, 53>>,
      <<49, 48, 48, 48, 48, 48, 48, 48, 48, 48, 48, 48, 48, 48>>}) \cup
    {<<57, 50, 50, 51, 51, 55, 50, 48, 51, 54, 56, 53, 52, 55, 55, 53, 56, 48, 55>>,
     <<57, 50, 50, 51, 51, 55, 50, 48, 51, 54, 56, 53, 52, 55, 55, 53, 56, 48, 56>>,
     <<48, 48, 49, 54, 55, 50, 53, 51, 49, 50, 48, 48, 49, 50, 51>>,
     <<48, 57, 50, 50, 51, 51, 55, 50, 48, 51, 54, 56, 53, 52, 55, 55, 53, 56, 48, 56>>,
     <<49, 56, 52, 52, 54, 55, 52, 52, 48, 55, 51, 55, 48, 57, 53, 53, 49, 54, 49, 54>>}

\* texts in quotes: dates, one of a leap year, one of a day and one of a month
\* that do not exist, the first day of the year 1; full times with Z, with a
\* fraction and an offset, before the epoch, with an hour 24, with no zone,
\* with a space for the T; texts that are no time, and quoted texts with a
\* space before or after
QuotedTexts ==
    {<<34, 50, 48, 50, 51, 45, 48, 49, 45, 48, 49, 34>>,
     <<34, 50, 48, 50, 52, 45, 48, 50, 45, 50, 57, 34>>,
     <<34, 50, 48, 50, 51, 45, 48, 50, 45, 50, 57, 34>>,
     <<34, 50, 48, 50, 51, 45, 49, 51, 45, 48, 49, 34>>,
     <<34, 48, 48, 48, 49, 45, 48, 49, 45, 48, 49, 34>>,
     <<34, 50, 48, 50, 51, 45, 48, 49, 45, 48, 49, 84, 48, 48, 58, 48, 48, 58, 48,
       48, 90, 34>>,
     <<34, 50, 48, 50, 51, 45, 48, 49, 45, 48, 49, 84, 49, 50, 58, 51, 48, 58, 52,
       53, 46, 49, 50, 51, 52, 53, 54, 55, 56, 57, 43, 48, 50, 58, 48, 48, 34>>,
     <<34, 49, 57, 54, 57, 45, 49, 50, 45, 51, 49, 84, 50, 51, 58, 53, 57, 58, 53,
       57, 46, 53, 45, 48, 53, 58, 48, 48, 34>>,
     <<34, 50, 48, 50, 51, 45, 48, 49, 45, 48, 49, 84, 50, 52, 58, 48, 48, 58, 48,
       48, 90, 34>>,
     <<34, 50, 48, 50, 51, 45, 48, 49, 45, 48, 49, 84, 48, 48, 58, 48, 48, 58, 48, 48, 34>>,
     <<34, 50, 48, 50, 51, 45, 48, 49, 45, 48, 49, 32, 48, 48, 58, 48, 48, 58, 48,
       48, 90, 34>>,
     <<34, 97, 98, 99, 34>>,
     <<34, 120, 34>>,
     <<34, 34>>,
     <<34>>,
     <<34, 49, 54, 55, 50, 53, 51, 49, 50, 48, 48, 49, 50, 51, 34>>,
     <<34, 110, 117, 108, 108, 34>>,
     <<34, 50, 48, 50, 51, 45, 48, 49, 45, 48, 49, 34, 32>>,
     <<32, 34, 50, 48, 50, 51, 45, 48, 49, 45, 48, 49, 34>>,
     <<34, 105, 110, 118, 97, 108, 105, 100, 32, 116, 105, 109, 101, 32, 102, 111,
       114, 109, 97, 116, 34>>}

\* objects: with an iso alone, with other fields, with the key in capitals,
\* with white space, with an iso that is a date only, no time, empty, null or
\* a number, with no iso, with fields of a wrong type, with a field the
\* record does not have, with two isos; objects cut short; a full with
\* leading zeros, with a plus sign, with a space, out of range; the key with
\* a long s, raw and escaped, and after a key that is a Kelvin sign
ObjectTexts ==
    {<<123, 34, 105, 115, 111, 34, 58, 34, 50, 48, 50, 51, 45, 48, 49, 45, 48, 49,
       84, 48, 48, 58, 48, 48, 58, 48, 48, 90, 34, 125>>,
     <<123, 34, 105, 115, 111, 34, 58, 34, 50, 48, 50, 51, 45, 48, 49, 45, 48, 49,
       84, 49, 50, 58, 51, 48, 58, 52, 53, 46, 53, 43, 48, 50, 58, 48, 48, 34, 44,
       34, 116, 122, 34, 58, 34, 85, 84, 67, 34, 44, 34, 117, 110, 105, 120, 34, 58,
       55, 125>>,
     <<123, 34, 73, 83, 79, 34, 58, 34, 50, 48, 50, 51, 45, 48, 49, 45, 48, 49, 84,
       48, 48, 58, 48, 48, 58, 48, 48, 90, 34, 125>>,
     <<32, 123, 32, 34, 105, 115, 111, 34, 32, 58, 32, 34, 50, 48, 50, 51, 45, 48,
       49, 45, 48, 49, 84, 48, 48, 58, 48, 48, 58, 48, 48, 90, 34, 32, 125, 32>>,
     <<123, 34, 105, 115, 111, 34, 58, 34, 50, 48, 50, 51, 45, 48, 49, 45, 48, 49,
       34, 125>>,
     <<123, 34, 105, 115, 111, 34, 58, 34, 98, 97, 100, 34, 125>>,
     <<123, 34, 105, 115, 111, 34, 58, 34, 34, 125>>,
     <<123, 34, 105, 115, 111, 34, 58, 110, 117, 108, 108, 125>>,
     <<123, 34, 105, 115, 111, 34, 58, 53, 125>>,
     <<123, 125>>,
     <<123, 34, 116, 122, 34, 58, 34, 85, 84, 67, 34, 125>>,
     <<123, 34, 105, 115, 111, 34, 58, 34, 50, 48, 50, 51, 45, 48, 49, 45, 48, 49,
       84, 48, 48, 58, 48, 48, 58, 48, 48, 90, 34, 44, 34, 117, 110, 105, 120, 34,
       58, 49, 46, 53, 125>>,
     <<123, 34, 105, 115, 111, 34, 58, 34, 50, 48, 50, 51, 45, 48, 49, 45, 48, 49,
       84, 48, 48, 58, 48, 48, 58, 48, 48, 90, 34, 44, 34, 117, 110, 105, 120, 34,
       58, 34, 55, 34, 125>>,
     <<123, 34, 105, 115, 111, 34, 58, 34, 50, 48, 50, 51, 45, 48, 49, 45, 48, 49,
       84, 48, 48, 58, 48, 48, 58, 48, 48, 90, 34, 44, 34, 102, 117, 108, 108, 34,
       58, 34, 55, 34, 125>>,
     <<123, 34, 105, 115, 111, 34, 58, 34, 50, 48, 50, 51, 45, 48, 49, 45, 48, 49,
       84, 48, 48, 58, 48, 48, 58, 48, 48, 90, 34, 44, 34, 102, 117, 108, 108, 34,
       58, 55, 125>>,
     <<123, 34, 105, 115, 111, 34, 58, 34, 50, 48, 50, 51, 45, 48, 49, 45, 48, 49,
       84, 48, 48, 58, 48, 48, 58, 48, 48, 90, 34, 44, 34, 120, 34, 58, 91, 49, 44,
       123, 34, 97, 34, 58, 110, 117, 108, 108, 125, 93, 125>>,
     <<123, 34, 105, 115, 111, 34, 58, 34, 50, 48, 50, 51, 45, 48, 49, 45, 48, 49,
       84, 48, 48, 58, 48, 48, 58, 48, 48, 90, 34, 44, 34, 105, 115, 111, 34, 58,
       34, 50, 48, 50, 52, 45, 48, 50, 45, 50, 57, 84, 48, 48, 58, 48, 48, 58, 48,
       48, 90, 34, 125>>,
     <<123, 34, 105, 115, 111, 34, 58, 34, 50, 48, 50, 51, 45, 48, 49, 45, 48, 49,
       84, 48, 48, 58, 48, 48, 58, 48, 48, 90, 34>>,
     <<123, 34, 105, 115, 111, 34, 58, 34, 50, 48, 50, 51, 45, 48, 49, 45, 48, 49,
       84, 48, 48, 58, 48, 48, 58, 48, 48, 90, 34, 44, 125>>,
     <<123, 34, 105, 115, 111, 34, 125>>,
     <<123, 34, 105, 115, 111, 34, 58, 34, 50, 48, 50, 51, 45, 48, 49, 45, 48,
       49, 84, 48, 48, 58, 48, 48, 58, 48, 48, 90, 34, 44, 34, 102, 117, 108, 108,
       34, 58, 34, 48, 48, 55, 34, 125>>,
     <<123, 34, 105, 115, 111, 34, 58, 34, 50, 48, 50, 51, 45, 48, 49, 45, 48,
       49, 84, 48, 48, 58, 48, 48, 58, 48, 48, 90, 34, 44, 34, 102, 117, 108, 108,
       34, 58, 34, 45, 48, 48, 55, 34, 125>>,
     <<123, 34, 105, 115, 111, 34, 58, 34, 50, 48, 50, 51, 45, 48, 49, 45, 48,
       49, 84, 48, 48, 58, 48, 48, 58, 48, 48, 90, 34, 44, 34, 102, 117, 108, 108,
       34, 58, 34, 43, 55, 34, 125>>,
     <<123, 34, 105, 115, 111, 34, 58, 34, 50, 48, 50, 51, 45, 48, 49, 45, 48,
       49, 84, 48, 48, 58, 48, 48, 58, 48, 48, 90, 34, 44, 34, 102, 117, 108, 108,
       34, 58, 34, 32, 55, 34, 125>>,
     <<123, 34, 105, 115, 111, 34, 58, 34, 50, 48, 50, 51, 45, 48, 49, 45, 48,
       49, 84, 48, 48, 58, 48, 48, 58, 48, 48, 90, 34, 44, 34, 102, 117, 108, 108,
       34, 58, 34, 57, 50, 50, 51, 51, 55, 50, 48, 51, 54, 56, 53, 52, 55, 55, 53,
       56, 48, 56, 34, 125>>,
     <<123, 34, 105, 197, 191, 111, 34, 58, 34, 50, 48, 50, 51, 45, 48, 49, 45,
       48, 49, 84, 48, 48, 58, 48, 48, 58, 48, 48, 90, 34, 125>>,
     <<123, 34, 105, 92, 117, 48, 49, 55, 102, 111, 34, 58, 34, 50, 48, 50, 51,
       45, 48, 49, 45, 48, 49, 84, 48, 48, 58, 48, 48, 58, 48, 48, 90, 34, 125>>,
     <<123, 34, 226, 132, 170, 34, 58, 49, 44, 34, 73, 197, 191, 79, 34, 58, 34,
       50, 48, 50, 51, 45, 48, 49, 45, 48, 49, 84, 48, 48, 58, 48, 48, 58, 48, 48,
       90, 34, 125>>}

\* numbers that are not all digits: fractions, negative ones, exponents,
\* milliseconds with a fraction, numbers no int64 holds and no float64
\* holds; numbers cut short or with a sign or a base JSON does not have, with
\* white space around or inside, with a leading zero
FloatTexts ==
    {<<49, 46, 53>>,
     <<45, 49, 46, 53>>,
     <<48, 46, 53>>,
     <<45, 48>>,
     <<45, 53>>,
     <<49, 101, 51>>,
     <<49, 69, 43, 51>>,
     <<49, 53, 101, 45, 49>>,
     <<49, 54, 55, 50, 53, 51, 49, 50, 48, 48, 49, 50, 51, 46, 55, 53>>,
     <<45, 49, 54, 55, 50, 53, 51, 49, 50, 48, 48, 49, 50, 51, 46, 55, 53>>,
     <<49, 101, 49, 57>>,
     <<45, 49, 101, 49, 57>>,
     <<49, 101, 52, 48, 48>>,
     <<49, 46>>,
     <<46, 53>>,
     <<45>>,
     <<49, 101>>,
     <<43, 53>>,
     <<48, 120, 49, 48>>,
     <<32, 49, 50>>,
     <<49, 50, 32>>,
     <<49, 50, 10>>,
     <<49, 32, 50>>,
     <<48, 49, 46, 53>>}

\* null with white space around it, cut short, in capitals; the other
\* literals, arrays, a bare word, white space alone
OtherTexts ==
    {<<110, 117, 108, 108, 32>>,
     <<32, 110, 117, 108, 108>>,
     <<9, 110, 117, 108, 108, 10>>,
     <<110, 117, 108>>,
     <<78, 85, 76, 76>>,
     <<116, 114, 117, 101>>,
     <<102, 97, 108, 115, 101>>,
     <<91, 93>>,
     <<91, 49, 93>>,
     <<97, 98, 99>>,
     <<32>>}

\* the texts MarshalJSON gives for valid timestamps
MarshalledTimes ==
    {OptimizedCustomTime_MarshalJSON([Time |-> x, Valid |-> TRUE]).data : x \in TextTimeValues}

\* every text the decoder is given
TimeTexts ==
    ((DigitTexts \cup QuotedTexts) \cup (ObjectTexts \cup FloatTexts)) \cup
    ((OtherTexts \cup MarshalledTimes) \cup {nullJSON})

Archs == {"amd64", "arm64"}

\* what the target may hold when the decode starts
TimeTargets ==
    {ZeroScalar("Time"),
     [Time |-> [sec |-> I64(5), nsec |-> 5, loc |-> "UTC"], Valid |-> TRUE],
     [Time |-> [sec |-> I64(5), nsec |-> 5, loc |-> "UTC"], Valid |-> FALSE]}

InitTime ==
    /\ typ \in [kind : {"Time"}, form : {"Optimized", "Public"}]
    /\ tgt \in TimeTargets
    /\ src = <<>>
    /\ enc = NoEnc
    /\ dec = NoDec
    /\ nreads = 0
    /\ PoolUnused

\* the decode of b has given u
DecodedTime(b, arch, u) ==
    /\ tgt' = u.tgt
    /\ dec' = [phase |-> "done", input |-> b, arch |-> arch, before |-> tgt, err |-> u.err]

\* tgt.UnmarshalJSON(b), in a program built for one processor or the other
DoUnmarshalTime ==
    /\ dec.phase = "none"
    /\ \E b \in TimeTexts : \E arch \in Archs :
        DecodedTime(b, arch,
                    IF typ.form = "Optimized"
                    THEN OptimizedCustomTime_UnmarshalJSON(tgt, b, arch)
                    ELSE CustomTime_UnmarshalJSON(tgt, b, arch))
    /\ UNCHANGED <<typ, src, enc, nreads, pool, mu, thr, hist>>

\* the caller turns to another target
NewTimeTarget ==
    /\ dec.phase = "done"
    /\ tgt' \in TimeTargets
    /\ dec' = NoDec
    /\ UNCHANGED <<typ, src, enc, nreads, pool, mu, thr, hist>>

NextTime == DoUnmarshalTime \/ NewTimeTarget

SpecTime == InitTime /\ [][NextTime]_vars

(***************************************************************************)
(* Text decoding of every type of the package: the five optional scalars   *)
(* in both forms and the two map types, on texts of the caller's own, the  *)
(* zero-length text among them.                                            *)
(***************************************************************************)
\* texts for the float64 decoder: the four paths of the decoder, numbers
\* with a sign, a bare period, leading zeros, an exponent, the names
\* strconv takes, spaces around, texts that are no number, underscores
\* between digits and elsewhere, and hexadecimal numbers
Float64Texts ==
    {<<>>,
     <<110, 117, 108, 108>>,
     <<53>>,
     <<48>>,
     <<55>>,
     <<48, 53>>,
     <<45, 53>>,
     <<45, 48>>,
     <<52, 50>>,
     <<57, 57>>,
     <<45, 52, 50>>,
     <<45, 48, 53>>,
     <<49, 46, 53>>,
     <<49, 46>>,
     <<46, 53>>,
     <<45, 46, 53>>,
     <<46>>,
     <<45, 46>>,
     <<45>>,
     <<43, 53>>,
     <<78, 97, 78>>,
     <<110, 97, 110>>,
     <<73, 110, 102>>,
     <<45, 105, 110, 102>>,
     <<43, 73, 110, 102, 105, 110, 105, 116, 121>>,
     <<32, 110, 117, 108, 108>>,
     <<110, 117, 108, 108, 32>>,
     <<32, 53>>,
     <<53, 32>>,
     <<49, 101, 50>>,
     <<49, 69, 50>>,
     <<49, 101, 52, 48, 48>>,
     <<50, 53, 48, 46, 55, 53>>,
     <<45, 48, 46, 50, 53>>,
     <<49, 48, 48>>,
     <<48, 46, 48>>,
     <<49, 46, 53, 48>>,
     <<49, 46, 50, 53, 101, 49>>,
     <<48, 48>>,
     <<48, 46, 53, 46>>,
     <<97, 98, 99>>,
     <<34, 53, 34>>,
     <<116, 114, 117, 101>>,
     <<49, 50, 46, 50, 53>>,
     <<49, 46, 55, 53>>,
     <<49, 46, 46, 53>>,
     <<45, 45, 53>>,
     <<48, 48, 49, 50, 46, 53>>,
     <<53, 46, 50, 53>>,
     <<45, 49, 50, 46, 53>>,
     <<49, 50, 51>>,
     <<49, 46, 50, 53, 48>>,
     <<50, 46, 53, 101, 45, 49>>,
     <<45, 49, 101, 52, 48, 48>>,
     <<49, 101>>,
     <<101, 53>>,
     <<49, 95, 48>>,
     <<48, 120, 49, 112, 45, 50>>,
     <<48, 88, 56, 112, 48>>,
     <<49, 95, 95, 48>>,
     <<49, 95>>,
     <<48, 120, 49>>,
     <<45, 48, 120, 46, 56, 112, 49>>,
     <<48, 120, 49, 112, 50, 48, 48, 48>>,
     <<49, 95, 50, 46, 53>>}

MapTexts ==
    {<<>>,
     <<110, 117, 108, 108>>,
     <<32, 110, 117, 108, 108>>,
     <<123, 125>>,
     <<123, 32, 125>>,
     <<123, 34, 97, 34, 58, 34, 98, 34, 125>>,
     <<123, 34, 97, 34, 58, 49, 125>>,
     <<123, 34, 97, 34, 58, 34, 98, 34, 44, 34, 99, 34, 58, 34, 100, 34, 125>>,
     <<123, 34, 97, 34, 58, 49, 44, 34, 98, 34, 58, 50, 125>>,
     <<120>>,
     <<123>>,
     <<125>>,
     <<91, 93>>,
     <<34, 97, 34>>,
     <<49>>,
     <<123, 34, 97, 34, 58, 110, 117, 108, 108, 125>>}

DecodeTypes ==
    [kind : {"String", "Int64", "Bool", "Float64", "Time"}, form : {"Optimized", "Public"}] \cup
    [kind : {"LocalizedText", "IntDictionary"}, form : {"Public"}]

\* what a target may hold when a decode starts
DecodeTargets(kind) ==
    CASE kind \in {"String", "Int64", "Bool"} -> TextTargets(kind)
      [] kind = "Float64" -> {ZeroScalar(kind),
                              [Float64 |-> FloatOfQuarters(FALSE, 6), Valid |-> TRUE],
                              [Float64 |-> FloatOfQuarters(FALSE, 6), Valid |-> FALSE]}
      [] kind = "Time" -> TimeTargets
      [] kind = "LocalizedText" -> {NilMap, [nil |-> FALSE, m |-> <<>>],
                                    [nil |-> FALSE, m |-> (<<107>> :> <<118>>)]}
      [] kind = "IntDictionary" -> {NilMap, [nil |-> FALSE, m |-> <<>>],
                                    [nil |-> FALSE, m |-> (<<107>> :> I64(7))]}

DecodeTexts(kind) ==
    CASE kind \in {"String", "Int64", "Bool"} -> RawTexts(kind) \cup {<<>>}
      [] kind = "Float64" -> Float64Texts
      [] kind = "Time" -> TimeTexts \cup {<<>>}
      [] kind \in {"LocalizedText", "IntDictionary"} -> MapTexts

\* v.UnmarshalJSON(b) for a v of type t
DecodeText(t, v, b, arch) ==
    CASE t.kind \in {"String", "Int64", "Bool"} -> UnmarshalJSON(t, v, b)
      [] t.kind = "Float64" -> IF t.form = "Optimized"
                               THEN OptimizedNullFloat64_UnmarshalJSON(v, b)
                               ELSE NullFloat64_UnmarshalJSON(v, b)
      [] t.kind = "Time" -> IF t.form = "Optimized"
                            THEN OptimizedCustomTime_UnmarshalJSON(v, b, arch)
                            ELSE CustomTime_UnmarshalJSON(v, b, arch)
      [] t.kind = "LocalizedText" -> LocalizedText_UnmarshalJSON(v, b)
      [] t.kind = "IntDictionary" -> IntDictionary_UnmarshalJSON(v, b)

InitDecode ==
    /\ typ \in DecodeTypes
    /\ tgt \in DecodeTargets(typ.kind)
    /\ src = <<>>
    /\ enc = NoEnc
    /\ dec = NoDec
    /\ nreads = 0
    /\ PoolUnused

\* tgt.UnmarshalJSON(b), in a program built for one processor or the other
DoDecode ==
    /\ dec.phase = "none"
    /\ \E b \in DecodeTexts(typ.kind) : \E arch \in Archs :
        DecodedTime(b, arch, DecodeText(typ, tgt, b, arch))
    /\ UNCHANGED <<typ, src, enc, nreads, pool, mu, thr, hist>>

\* the caller turns to another target
NewDecodeTarget ==
    /\ dec.phase = "done"
    /\ tgt' \in DecodeTargets(typ.kind)
    /\ dec' = NoDec
    /\ UNCHANGED <<typ, src, enc, nreads, pool, mu, thr, hist>>

NextDecode == DoDecode \/ NewDecodeTarget

SpecDecode == InitDecode /\ [][NextDecode]_vars

(***************************************************************************)
(* Encoding as a state machine: a caller encodes one value after the       *)
(* other, each into a sink or a byte slice of its own.                     *)
(***************************************************************************)
InitEnc ==
    /\ typ \in BinTypes
    /\ tgt = ZeroValue(typ.kind)
    /\ src = <<>>
    /\ enc = NoEnc
    /\ dec = NoDec
    /\ nreads = 0
    /\ PoolUnused

\* x.WriteTo(w) on a fresh sink w that follows the plan
DoWriteTo ==
    \E x \in Values(typ.kind) : \E plan \in Plans(typ, x) :
        LET w == WriteTo(typ, x, plan)
        IN  /\ enc' = [phase |-> "WriteTo", x |-> x, plan |-> plan, calls |-> w.calls,
                       n |-> w.n, err |-> w.err]
            /\ UNCHANGED <<typ, tgt, src, dec, nreads, pool, mu, thr, hist>>

\* x.MarshalJSON()
DoMarshalJSON ==
    /\ typ.kind \in ScalarKinds
    /\ \E x \in TextValues(typ.kind) :
        LET m == MarshalJSON(typ, x)
        IN  enc' = [phase |-> "MarshalJSON", x |-> x, data |-> m.data, err |-> m.err]
    /\ UNCHANGED <<typ, tgt, src, dec, nreads, pool, mu, thr, hist>>

NextEnc == DoWriteTo \/ DoMarshalJSON

SpecEnc == InitEnc /\ [][NextEnc]_vars

(***************************************************************************)
(* InternPool: a bounded pool of strings with LRU eviction.  A Go string   *)
(* is here [bytes, at]: its content and the place of its bytes in memory,  *)
(* so that two strings of one content can be told apart.  p.cache takes a  *)
(* content to its list element, p.lru holds the elements with the front    *)
(* first; an element is known by the entry it holds.                       *)
(***************************************************************************)
Str(b, t) == [bytes |-> b, at |-> t]
NoStr == Str(<<>>, 0)

lruEntry(s) == [key |-> s, value |-> s]
\* the nil *list.Element
NilElem == lruEntry(NoStr)

\* what a call returns: a string from Intern, a number from Size
StrResult(s) == [s |-> s, n |-> 0]
IntResult(n) == [s |-> NoStr, n |-> n]
NoResult == StrResult(NoStr)

NewInternPool(maxSize, minLen) ==
    [cache |-> <<>>, lru |-> <<>>, maxSize |-> maxSize, minLen |-> minLen]

\* container/list: an element that is not in the list is left alone
InList(l, e) == \E i \in 1..Len(l) : l[i] = e
Without(l, e) ==
    IF ~InList(l, e) THEN l
    ELSE [i \in 1..(Len(l) - 1) |->
             IF \E j \in 1..i : l[j] = e THEN l[i + 1] ELSE l[i]]
PushFront(l, e) == <<e>> \o l
MoveToFront(l, e) == IF InList(l, e) THEN <<e>> \o Without(l, e) ELSE l
\* (a faulty Back: the front of the list)
Back_Front(l) == IF l = <<>> THEN NilElem ELSE l[1]
Back(l) == IF l = <<>> THEN NilElem ELSE l[Len(l)]
Remove(l, e) == Without(l, e)

\* p.cache[k] = e and delete(p.cache, k)
Put(c, k, e) == [x \in DOMAIN c \cup {k} |-> IF x = k THEN e ELSE c[x]]
Delete(c, k) == [x \in DOMAIN c \ {k} |-> c[x]]

\* (a faulty test: no string is too short)
TooShort_Never(p, s) == FALSE
\* if len(s) < p.minLen
TooShort(p, s) == Len(s.bytes) < p.minLen
\* elem, ok := p.cache[s]
InCache(p, s) == s.bytes \in DOMAIN p.cache
\* (a faulty test: one entry too many is let in)
OverCapacity_OneMore(p) == Len(p.lru) > p.maxSize + 1
\* if p.lru.Len() > p.maxSize
OverCapacity(p) == Len(p.lru) > p.maxSize

\* the steps Intern takes on the pool while it holds the mutex
\* (a faulty hit: the element stays where it is)
Hit_NoMove(p, s) == p
Hit(p, s) == [p EXCEPT !.lru = MoveToFront(p.lru, p.cache[s.bytes])]
Pushed(p, s) == [p EXCEPT !.lru = PushFront(p.lru, lruEntry(s))]
Stored(p, s) == [p EXCEPT !.cache = Put(p.cache, s.bytes, lruEntry(s))]
Removed(p, oldest) == [p EXCEPT !.lru = Remove(p.lru, oldest)]
\* the pool when the delete is left out
Deleted_Kept(p, oldest) == p
Deleted(p, oldest) == [p EXCEPT !.cache = Delete(p.cache, oldest.key.bytes)]

\* Evict oldest if over capacity
Evicted(p) ==
    IF OverCapacity(p) /\ Back(p.lru) # NilElem
    THEN Deleted(Removed(p, Back(p.lru)), Back(p.lru))
    ELSE p

\* the steps Clear takes
\* (a faulty Clear: the map is kept)
ClearedCache_Kept(p) == p
ClearedCache(p) == [p EXCEPT !.cache = <<>>]
ClearedList(p) == [p EXCEPT !.lru = <<>>]

\* the three operations run from start to end with nothing in between: the
\* pool they leave and what they return
Intern(p, s) ==
    IF TooShort(p, s) THEN [pool |-> p, result |-> StrResult(s)]
    ELSE IF InCache(p, s) THEN [pool |-> Hit(p, s), result |-> StrResult(p.cache[s.bytes].value)]
    ELSE [pool |-> Evicted(Stored(Pushed(p, s), s)), result |-> StrResult(s)]

Size(p) == [pool |-> p, result |-> IntResult(Cardinality(DOMAIN p.cache))]

Clear(p) == [pool |-> ClearedList(ClearedCache(p)), result |-> NoResult]

Call(p, op, s) ==
    CASE op = "Intern" -> Intern(p, s)
      [] op = "Size"   -> Size(p)
      [] op = "Clear"  -> Clear(p)

(***************************************************************************)
(* The pool shared by threads.  Each thread makes one call after the       *)
(* other; a call goes through the steps of its code, one step at a time,   *)
(* and the steps of the threads interleave.                                *)
(***************************************************************************)
Threads == 1..NumThreads

\* the minLen of the pools under test
PoolMinLen == 2

\* the contents interned: one below the minimum length, three above it
PoolStrings == {<<97>>, <<97, 97>>, <<98, 98>>, <<99, 99>>}

\* each thread passes strings of its own: Str(b, t)

Resting == [pc |-> "idle", op |-> "none", s |-> NoStr, oldest |-> NilElem, result |-> NoResult]

\* hist, kept beside the pool to state its rules, takes each call as one
\* step at its return:
\*   seq     the pool the calls returned so far would have left had they run
\*           one after the other in the order of their returns
\*   recent  the contents Intern returned from the pool since the last Clear,
\*           the most recently returned first, each once
\*   stored  for each content in seq, the string its insertion stored
\*   dropped the contents interned before the last Clear and not since
NoHist(p) == [seq |-> p, recent |-> <<>>, stored |-> <<>>, dropped |-> {}]

Returned(recent, b) == <<b>> \o Without(recent, b)

AfterIntern(h, s, q) ==
    [seq |-> q,
     recent |-> Returned(h.recent, s.bytes),
     stored |-> [b \in DOMAIN q.cache |->
                    IF b \in DOMAIN h.seq.cache /\ b \in DOMAIN h.stored THEN h.stored[b]
                    ELSE s],
     dropped |-> h.dropped \ {s.bytes}]

AfterClear(h, q) ==
    [seq |-> q, recent |-> <<>>, stored |-> <<>>,
     dropped |-> h.dropped \cup {h.recent[i] : i \in 1..Len(h.recent)}]

AfterCall(h, op, s) ==
    CASE op = "Intern" -> AfterIntern(h, s, Intern(h.seq, s).pool)
      [] op = "Size"   -> h
      [] op = "Clear"  -> AfterClear(h, Clear(h.seq).pool)

InitPool ==
    /\ typ = [kind |-> "InternPool", form |-> "Public"]
    /\ tgt = <<>> /\ src = <<>> /\ enc = NoEnc /\ dec = NoDec /\ nreads = 0
    /\ \E maxSize \in 0..MaxPoolSize : pool = NewInternPool(maxSize, PoolMinLen)
    /\ mu = 0
    /\ thr = [t \in Threads |-> Resting]
    /\ hist = NoHist(pool)

\* p.Intern(s) with a string below the minimum length: return s, with no
\* mutex taken
InternShort(t) ==
    /\ thr[t].pc = "idle"
    /\ \E b \in PoolStrings :
        /\ TooShort(pool, Str(b, t))
        /\ thr' = [thr EXCEPT ![t] = [Resting EXCEPT !.pc = "short", !.op = "Intern",
                                                      !.s = Str(b, t),
                                                      !.result = StrResult(Str(b, t))]]
    /\ UNCHANGED <<pool, mu, hist>>

\* the caller has its string
ReturnShort(t) ==
    /\ thr[t].pc = "short"
    /\ thr' = [thr EXCEPT ![t] = Resting]
    /\ UNCHANGED <<pool, mu, hist>>

\* p.Intern(s) with a longer string, p.Size() and p.Clear() go for the mutex
InternLong(t) ==
    /\ thr[t].pc = "idle"
    /\ \E b \in PoolStrings :
        /\ ~TooShort(pool, Str(b, t))
        /\ thr' = [thr EXCEPT ![t] = [Resting EXCEPT !.pc = "wait", !.op = "Intern",
                                                      !.s = Str(b, t)]]
    /\ UNCHANGED <<pool, mu, hist>>

CallSize(t) ==
    /\ thr[t].pc = "idle"
    /\ thr' = [thr EXCEPT ![t] = [Resting EXCEPT !.pc = "wait", !.op = "Size"]]
    /\ UNCHANGED <<pool, mu, hist>>

CallClear(t) ==
    /\ thr[t].pc = "idle"
    /\ thr' = [thr EXCEPT ![t] = [Resting EXCEPT !.pc = "wait", !.op = "Clear"]]
    /\ UNCHANGED <<pool, mu, hist>>

\* (a faulty mutex: Lock does not wait)
CanLock_Always(m) == TRUE
\* p.mu.Lock()
CanLock(m) == m = 0

Lock(t) ==
    /\ thr[t].pc = "wait"
    /\ CanLock(mu)
    /\ mu' = t
    /\ thr' = [thr EXCEPT ![t].pc = "locked"]
    /\ UNCHANGED <<pool, hist>>

\* found in the map: the element goes to the front, its value is the result
InternHit(t) ==
    /\ thr[t].pc = "locked" /\ thr[t].op = "Intern"
    /\ InCache(pool, thr[t].s)
    /\ pool' = Hit(pool, thr[t].s)
    /\ thr' = [thr EXCEPT ![t].pc = "ret", ![t].result = StrResult(pool.cache[thr[t].s.bytes].value)]
    /\ UNCHANGED <<mu, hist>>

\* not found: elem := p.lru.PushFront(entry)
InternPush(t) ==
    /\ thr[t].pc = "locked" /\ thr[t].op = "Intern"
    /\ ~InCache(pool, thr[t].s)
    /\ pool' = Pushed(pool, thr[t].s)
    /\ thr' = [thr EXCEPT ![t].pc = "pushed"]
    /\ UNCHANGED <<mu, hist>>

\* p.cache[s] = elem, then the test of the capacity
InternStore(t) ==
    /\ thr[t].pc = "pushed"
    /\ pool' = Stored(pool, thr[t].s)
    /\ thr' = [thr EXCEPT ![t].pc = IF OverCapacity(pool') /\ Back(pool'.lru) # NilElem
                                     THEN "over" ELSE "ret",
                          ![t].oldest = IF OverCapacity(pool') THEN Back(pool'.lru) ELSE NilElem,
                          ![t].result = StrResult(thr[t].s)]
    /\ UNCHANGED <<mu, hist>>

\* p.lru.Remove(oldest)
InternRemove(t) ==
    /\ thr[t].pc = "over"
    /\ pool' = Removed(pool, thr[t].oldest)
    /\ thr' = [thr EXCEPT ![t].pc = "removed"]
    /\ UNCHANGED <<mu, hist>>

\* delete(p.cache, key), the key being that of the entry oldest holds
InternDelete(t) ==
    /\ thr[t].pc = "removed"
    /\ pool' = Deleted(pool, thr[t].oldest)
    /\ thr' = [thr EXCEPT ![t].pc = "ret"]
    /\ UNCHANGED <<mu, hist>>

\* return len(p.cache)
DoSize(t) ==
    /\ thr[t].pc = "locked" /\ thr[t].op = "Size"
    /\ thr' = [thr EXCEPT ![t].pc = "ret", ![t].result = Size(pool).result]
    /\ UNCHANGED <<pool, mu, hist>>

\* p.cache = make(map[string]*list.Element)
ClearCache(t) ==
    /\ thr[t].pc = "locked" /\ thr[t].op = "Clear"
    /\ pool' = ClearedCache(pool)
    /\ thr' = [thr EXCEPT ![t].pc = "cleared"]
    /\ UNCHANGED <<mu, hist>>

\* p.lru = list.New()
ClearList(t) ==
    /\ thr[t].pc = "cleared"
    /\ pool' = ClearedList(pool)
    /\ thr' = [thr EXCEPT ![t].pc = "ret"]
    /\ UNCHANGED <<mu, hist>>

\* the deferred p.mu.Unlock() and the return: the caller has its result
Unlock(t) ==
    /\ thr[t].pc = "ret"
    /\ mu' = 0
    /\ thr' = [thr EXCEPT ![t] = Resting]
    /\ hist' = AfterCall(hist, thr[t].op, thr[t].s)
    /\ UNCHANGED pool

NextPool ==
    \E t \in Threads :
        \/ (InternShort(t) /\ UNCHANGED codecVars)
        \/ (ReturnShort(t) /\ UNCHANGED codecVars)
        \/ (InternLong(t) /\ UNCHANGED codecVars)
        \/ (CallSize(t) /\ UNCHANGED codecVars)
        \/ (CallClear(t) /\ UNCHANGED codecVars)
        \/ (Lock(t) /\ UNCHANGED codecVars)
        \/ (InternHit(t) /\ UNCHANGED codecVars)
        \/ (InternPush(t) /\ UNCHANGED codecVars)
        \/ (InternStore(t) /\ UNCHANGED codecVars)
        \/ (InternRemove(t) /\ UNCHANGED codecVars)
        \/ (InternDelete(t) /\ UNCHANGED codecVars)
        \/ (DoSize(t) /\ UNCHANGED codecVars)
        \/ (ClearCache(t) /\ UNCHANGED codecVars)
        \/ (ClearList(t) /\ UNCHANGED codecVars)
        \/ (Unlock(t) /\ UNCHANGED codecVars)

SpecPool == InitPool /\ [][NextPool]_vars

(***************************************************************************)
(* timeResponsePool and the calls of OptimizedCustomTime.MarshalJSON that  *)
(* share it.  The pool is the sequence of the records it holds; a thread   *)
(* is at a place of MarshalJSON with the record it took, if it has one.    *)
(* A sync.Pool hands a record to one caller at a time, may make a new one  *)
(* whatever it holds, and may drop what it holds.                          *)
(***************************************************************************)
\* the most calls of MarshalJSON in one behaviour
MaxEncodes == 3

\* &TimeResponse{}
ZeroTimeResponse ==
    [ISO |-> <<>>, TZ |-> <<>>, Unix |-> Zero64, UnixMS |-> Zero64, US |-> Zero64,
     Full |-> Zero64]

\* the six assignments from ct.Time
FilledRecord(tr, t) ==
    [tr EXCEPT !.ISO = FormatRFC3339Nano(t), !.TZ = ZoneName(t.loc), !.Unix = t.sec,
               !.UnixMS = UnixMilli(t), !.US = I64(t.nsec), !.Full = UnixMicro(t)]

\* the record when the six assignments of zero values are left out
ClearedRecord_Skipped(tr) == tr

\* the six assignments of zero values
ClearedRecord(tr) ==
    [tr EXCEPT !.ISO = <<>>, !.TZ = <<>>, !.Unix = Zero64, !.UnixMS = Zero64, !.US = Zero64,
               !.Full = Zero64]

\* the timestamps the calls are made on
EncodedTimes ==
    {[Time |-> [sec |-> I64(1672531200), nsec |-> 123456789, loc |-> "UTC"], Valid |-> TRUE],
     [Time |-> [sec |-> I64(-1), nsec |-> 0, loc |-> "Asia/Tokyo"], Valid |-> TRUE],
     [Time |-> [sec |-> I64(5), nsec |-> 5, loc |-> "UTC"], Valid |-> FALSE]}

NoCall ==
    [pc |-> "idle", ct |-> ZeroScalar("Time"), has |-> FALSE, tr |-> ZeroTimeResponse,
     reused |-> FALSE, data |-> <<>>, err |-> "nil"]

\* hist is the last call that returned: its timestamp, what it returned, and
\* whether its record came out of the pool
InitRecycle ==
    /\ typ = [kind |-> "Time", form |-> "Optimized"]
    /\ tgt = ZeroScalar("Time")
    /\ src = <<>>
    /\ enc = NoEnc
    /\ dec = NoDec
    /\ nreads = 0
    /\ pool = <<>>
    /\ mu = 0
    /\ thr = [t \in Threads |-> NoCall]
    /\ hist = <<>>

\* the sequence s without its i-th element
WithoutAt(s, i) == SubSeq(s, 1, i - 1) \o SubSeq(s, i + 1, Len(s))

\* ct.MarshalJSON() with ct.Valid false: return nullJSON, nil
EncodeInvalid(t) ==
    /\ thr[t].pc = "idle" /\ nreads < MaxEncodes
    /\ \E ct \in EncodedTimes :
        /\ ~ct.Valid
        /\ hist' = <<[ct |-> ct, data |-> nullJSON, err |-> "nil", reused |-> FALSE]>>
    /\ nreads' = nreads + 1
    /\ UNCHANGED <<typ, tgt, src, enc, dec, pool, mu, thr>>

\* timeResponsePool.Get() finds a record in the pool
GetPooled(t) ==
    /\ thr[t].pc = "idle" /\ nreads < MaxEncodes
    /\ \E ct \in EncodedTimes : \E i \in 1..Len(pool) :
        /\ ct.Valid
        /\ thr' = [thr EXCEPT ![t] = [NoCall EXCEPT !.pc = "got", !.ct = ct, !.has = TRUE,
                                                    !.tr = pool[i], !.reused = TRUE]]
        /\ pool' = WithoutAt(pool, i)
    /\ nreads' = nreads + 1
    /\ UNCHANGED <<typ, tgt, src, enc, dec, mu, hist>>

\* timeResponsePool.Get() calls New
GetNew(t) ==
    /\ thr[t].pc = "idle" /\ nreads < MaxEncodes
    /\ \E ct \in EncodedTimes :
        /\ ct.Valid
        /\ thr' = [thr EXCEPT ![t] = [NoCall EXCEPT !.pc = "got", !.ct = ct, !.has = TRUE]]
    /\ nreads' = nreads + 1
    /\ UNCHANGED <<typ, tgt, src, enc, dec, pool, mu, hist>>

\* tr.ISO = ... to tr.Full = ..., and data, err := json.Marshal(tr)
MarshalRecord(t) ==
    /\ thr[t].pc = "got"
    /\ thr' = [thr EXCEPT ![t].pc = "marshalled",
                          ![t].tr = FilledRecord(thr[t].tr, thr[t].ct.Time),
                          ![t].data = JsonMarshalTimeResponse(
                                          FilledRecord(thr[t].tr, thr[t].ct.Time))]
    /\ UNCHANGED <<typ, tgt, src, enc, dec, nreads, pool, mu, hist>>

\* tr.ISO = "" to tr.Full = 0, and timeResponsePool.Put(tr)
PutRecord(t) ==
    /\ thr[t].pc = "marshalled"
    /\ pool' = Append(pool, ClearedRecord(thr[t].tr))
    /\ thr' = [thr EXCEPT ![t].pc = "put", ![t].has = FALSE, ![t].tr = ZeroTimeResponse]
    /\ UNCHANGED <<typ, tgt, src, enc, dec, nreads, mu, hist>>

\* return data, err
ReturnEncoded(t) ==
    /\ thr[t].pc = "put"
    /\ hist' = <<[ct |-> thr[t].ct, data |-> thr[t].data, err |-> thr[t].err,
                  reused |-> thr[t].reused]>>
    /\ thr' = [thr EXCEPT ![t] = NoCall]
    /\ UNCHANGED <<typ, tgt, src, enc, dec, nreads, pool, mu>>

\* the garbage collector empties a slot of the pool
DropRecord ==
    /\ \E i \in 1..Len(pool) : pool' = WithoutAt(pool, i)
    /\ UNCHANGED <<typ, tgt, src, enc, dec, nreads, mu, thr, hist>>

NextRecycle ==
    \/ \E t \in Threads : EncodeInvalid(t)
    \/ \E t \in Threads : GetPooled(t)
    \/ \E t \in Threads : GetNew(t)
    \/ \E t \in Threads : MarshalRecord(t)
    \/ \E t \in Threads : PutRecord(t)
    \/ \E t \in Threads : ReturnEncoded(t)
    \/ DropRecord

SpecRecycle == InitRecycle /\ [][NextRecycle]_vars

(***************************************************************************)
(* Decoding values back to back from one reader: the reader holds the      *)
(* encodings of hist[1], hist[2], ... one after the other, and the caller  *)
(* decodes them in that order, each into a target of its type.             *)
(***************************************************************************)
\* the most values in one stream
MaxStream == 2

StreamValues(kind) ==
    CASE kind = "String"  -> {[String |-> <<200, 255, 97, 0>>, Valid |-> TRUE],
                              [String |-> <<>>, Valid |-> TRUE],
                              [String |-> <<1>>, Valid |-> FALSE]}
      [] kind = "Int64"   -> {[Int64 |-> I64(256), Valid |-> TRUE],
                              [Int64 |-> I64(42), Valid |-> FALSE]}
      [] kind = "Bool"    -> {[Bool |-> TRUE, Valid |-> TRUE], [Bool |-> FALSE, Valid |-> TRUE],
                              [Bool |-> TRUE, Valid |-> FALSE]}
      [] kind = "Float64" -> {[Float64 |-> FloatOfQuarters(TRUE, 6), Valid |-> TRUE],
                              [Float64 |-> FloatOfQuarters(TRUE, 6), Valid |-> FALSE]}
      [] kind = "Time"    -> {[Time |-> [sec |-> I64(-1), nsec |-> 999999999,
                                         loc |-> "America/New_York"], Valid |-> TRUE],
                              [Time |-> [sec |-> I64(5), nsec |-> 5, loc |-> "UTC"],
                               Valid |-> FALSE]}

\* a value of the stream with its type
StreamItems ==
    UNION {[t : [kind : {k}, form : {"Optimized", "Public"}], x : StreamValues(k)] :
           k \in ScalarKinds}

\* the streams of one value to MaxStream values
Streams == UNION {[1..k -> StreamItems] : k \in 1..MaxStream}

\* the bytes of the values from the i-th on, as their WriteTo calls on one
\* sink leave them
RECURSIVE StreamFrom(_, _)
StreamFrom(items, i) ==
    IF i > Len(items) THEN <<>>
    ELSE Encoding(items[i].t, items[i].x) \o StreamFrom(items, i + 1)

\* what the target of a ReadFrom call may hold before it
StreamTargets(kind) == {ZeroScalar(kind)} \cup {x \in StreamValues(kind) : x.Valid}

InitStream ==
    /\ hist \in Streams
    /\ src = StreamFrom(hist, 1)
    /\ typ = hist[1].t
    /\ tgt = ZeroScalar(typ.kind)
    /\ enc = NoEnc
    /\ dec = NoDec
    /\ nreads = 0
    /\ pool = <<>> /\ mu = 0 /\ thr = <<>>

\* the call has returned r; dec.total is the sum of the n returned so far
ReadNext(r, total) ==
    /\ tgt' = r.tgt
    /\ src' = r.rest
    /\ dec' = [phase |-> "done", n |-> r.n, err |-> r.err, total |-> total + r.n]

\* v.ReadFrom(r) for the next value of the stream, on the reader as the
\* calls before left it
DoReadNext ==
    /\ nreads < Len(hist)
    /\ (dec.phase = "done" => dec.err = "nil")
    /\ typ' = hist[nreads + 1].t
    /\ \E v \in StreamTargets(hist[nreads + 1].t.kind) :
        ReadNext(ReadFrom(hist[nreads + 1].t, v, src),
                 IF dec.phase = "done" THEN dec.total ELSE 0)
    /\ nreads' = nreads + 1
    /\ UNCHANGED <<enc, pool, mu, thr, hist>>

NextStream == DoReadNext

SpecStream == InitStream /\ [][NextStream]_vars

(***************************************************************************)
(* The byte slices MarshalJSON returns and the arrays behind them.  The    *)
(* package keeps nullJSON, trueJSON, falseJSON, digit0JSON,                *)
(* emptyStringJSON and the hundred slices of digitMap in variables; pool   *)
(* is what their arrays hold.  A result is the slice of one of them, or a  *)
(* slice of an array made by the call.  The caller may write into the      *)
(* result it got.                                                          *)
(***************************************************************************)
\* the most writes of the caller in one behaviour
MaxWrites == 1

digit0JSON == <<48>>

SharedSlices ==
    [var : {"nullJSON", "trueJSON", "falseJSON", "digit0JSON", "emptyStringJSON"}, i : {0}] \cup
    [var : {"digitMap"}, i : 0..99]

\* an array made by the call
Fresh == [var |-> "new", i |-> 0]

\* the variables as the package's declarations and init() leave them
InitialArrays ==
    [id \in SharedSlices |->
        CASE id.var = "nullJSON" -> nullJSON
          [] id.var = "trueJSON" -> trueJSON
          [] id.var = "falseJSON" -> falseJSON
          [] id.var = "digit0JSON" -> digit0JSON
          [] id.var = "emptyStringJSON" -> emptyStringJSON
          [] id.var = "digitMap" -> Itoa(id.i)]

\* the float64 f is a whole number from 1 to 99
IsSmallWhole(f) == \E i \in 1..99 : f = FloatOfInt(FALSE, i)
SmallWhole(f) == CHOOSE i \in 1..99 : f = FloatOfInt(FALSE, i)

\* the slice the return statement of MarshalJSON names
ReturnedSlice(kind, v) ==
    IF ~v.Valid THEN [var |-> "nullJSON", i |-> 0]
    ELSE CASE kind = "String" -> IF v.String = <<>> THEN [var |-> "emptyStringJSON", i |-> 0]
                                 ELSE Fresh
           [] kind = "Int64" -> IF ~IsNeg64(v.Int64) /\ SLt(v.Int64, I64(100))
                                THEN [var |-> "digitMap", i |-> v.Int64[8]]
                                ELSE Fresh
           [] kind = "Bool" -> IF v.Bool THEN [var |-> "trueJSON", i |-> 0]
                               ELSE [var |-> "falseJSON", i |-> 0]
           [] kind = "Float64" -> IF v.Float64 \in {Zero64, NegZero}
                                  THEN [var |-> "digit0JSON", i |-> 0]
                                  ELSE IF IsSmallWhole(v.Float64)
                                  THEN [var |-> "digitMap", i |-> SmallWhole(v.Float64)]
                                  ELSE Fresh
           [] kind = "Time" -> Fresh

\* the values MarshalJSON is called on
OwnedValues(kind) ==
    CASE kind = "String" -> [String : {<<>>, <<97>>}, Valid : BOOLEAN]
      [] kind = "Int64" -> [Int64 : {I64(0), I64(5), I64(42), I64(99), I64(100), I64(-1)},
                            Valid : BOOLEAN]
      [] kind = "Bool" -> [Bool : BOOLEAN, Valid : BOOLEAN]
      [] kind = "Float64" -> [Float64 : {Zero64, FloatOfInt(FALSE, 5), FloatOfInt(FALSE, 99),
                                         FloatOfInt(FALSE, 100), FloatOfQuarters(FALSE, 6)},
                              Valid : BOOLEAN]
      [] kind = "Time" -> {[Time |-> [sec |-> I64(5), nsec |-> 5, loc |-> "UTC"], Valid |-> TRUE],
                           ZeroScalar("Time")}

InitOwned ==
    /\ typ \in [kind : ScalarKinds, form : {"Optimized", "Public"}]
    /\ tgt = ZeroScalar(typ.kind)
    /\ src = <<>>
    /\ enc = NoEnc
    /\ dec = NoDec
    /\ nreads = 0
    /\ pool = InitialArrays
    /\ mu = 0 /\ thr = <<>> /\ hist = <<>>

\* the call returns the slice at: enc.data is what the caller finds in it
Encoded(x, at, m) ==
    enc' = [phase |-> "MarshalJSON", x |-> x, at |-> at,
            data |-> IF at = Fresh THEN m.data ELSE pool[at], err |-> m.err]

\* x.MarshalJSON() for an x of any of the types
DoMarshalOwned ==
    /\ \E t \in [kind : ScalarKinds, form : {"Optimized", "Public"}] :
        /\ typ' = t
        /\ \E x \in OwnedValues(t.kind) :
            Encoded(x, ReturnedSlice(t.kind, x), MarshalJSON(t, x))
    /\ tgt' = ZeroScalar(typ'.kind)
    /\ UNCHANGED <<src, dec, nreads, pool, mu, thr, hist>>

\* the caller does data[i] = c on the result it holds: the write goes to the
\* array behind the slice
WriteResult ==
    /\ enc.phase = "MarshalJSON" /\ enc.err = "nil" /\ nreads < MaxWrites
    /\ \E i \in 1..Len(enc.data) : \E c \in {88} :
        /\ enc' = [enc EXCEPT !.phase = "written", !.data[i] = c]
        /\ pool' = IF enc.at = Fresh THEN pool ELSE [pool EXCEPT ![enc.at][i] = c]
    /\ nreads' = nreads + 1
    /\ UNCHANGED <<typ, tgt, src, dec, mu, thr, hist>>

NextOwned == DoMarshalOwned \/ WriteResult

SpecOwned == InitOwned /\ [][NextOwned]_vars

(***************************************************************************)
(* Properties of the binary codec.                                         *)
(***************************************************************************)
Payload(kind, v) ==
    CASE kind = "String"  -> v.String
      [] kind = "Int64"   -> v.Int64
      [] kind = "Bool"    -> v.Bool
      [] kind = "Float64" -> v.Float64
      [] kind = "Time"    -> v.Time

\* C1: binary round trip of string, int64, bool and float64.  ReadFrom on
\* exactly the bytes WriteTo emitted for x returns no error, the target's
\* Valid is x's, and when x is valid the target's value is x's (float64 by
\* bit pattern), whatever the target held.
C1_BinaryRoundTrip ==
    (typ.kind \in {"String", "Int64", "Bool", "Float64"} /\ dec.phase = "done" /\ dec.whole)
        => /\ dec.err = "nil"
           /\ tgt.Valid = dec.x.Valid
           /\ dec.x.Valid => Payload(typ.kind, tgt) = Payload(typ.kind, dec.x)

\* a valid int64 with an asymmetric byte pattern came back
C1_Witness ==
    /\ typ.kind = "Int64" /\ dec.phase = "done" /\ dec.whole
    /\ dec.x = [Int64 |-> I64(256), Valid |-> TRUE]
    /\ tgt = dec.x /\ dec.n = 9

\* C3: binary round trip of a valid timestamp in any zone.  The decoded
\* time is valid, has the same Unix seconds and the same nanoseconds, and is
\* in UTC: only the zone is lost.
C3_TimeRoundTrip ==
    (typ.kind = "Time" /\ dec.phase = "done" /\ dec.whole /\ dec.x.Valid)
        => /\ dec.err = "nil"
           /\ tgt.Valid
           /\ tgt.Time.sec = dec.x.Time.sec
           /\ tgt.Time.nsec = dec.x.Time.nsec
           /\ tgt.Time.loc = "UTC"

\* an instant before the epoch, in another zone, came back in UTC
C3_Witness ==
    /\ typ.kind = "Time" /\ dec.phase = "done" /\ dec.whole /\ dec.x.Valid
    /\ dec.x.Time.loc = "America/New_York" /\ IsNeg64(dec.x.Time.sec)
    /\ tgt.Time = [sec |-> I64(-1), nsec |-> 999999999, loc |-> "UTC"]

\* the bytes the field f of the record x is encoded as on its own
FieldBytes(x, f) == Accepted(ScalarWriteTo(FieldKind[f], x[f], NoPlan, 0).calls)

\* the field a holds what the field x held: the same Valid and, when valid,
\* the same value, a timestamp as the same instant
SameField(kind, a, x) ==
    /\ a.Valid = x.Valid
    /\ x.Valid => IF kind = "Time"
                  THEN a.Time.sec = x.Time.sec /\ a.Time.nsec = x.Time.nsec
                  ELSE Payload(kind, a) = Payload(kind, x)

\* C12: the composite record, fixed field order.  WriteTo emits the seven
\* fields' encodings in the order Score, Age, CreatedAt, UpdatedAt, Name,
\* Description, IsActive; ReadFrom on exactly these bytes returns no error,
\* restores every field whatever the target held, and returns the n that
\* WriteTo returned, the sum of the seven encoded lengths.
C12_ComplexRoundTrip ==
    (typ.kind = "Complex" /\ dec.phase = "done" /\ dec.whole)
        => /\ dec.input =
                  ((FieldBytes(dec.x, "Score") \o FieldBytes(dec.x, "Age")) \o
                   (FieldBytes(dec.x, "CreatedAt") \o FieldBytes(dec.x, "UpdatedAt"))) \o
                  ((FieldBytes(dec.x, "Name") \o FieldBytes(dec.x, "Description")) \o
                   FieldBytes(dec.x, "IsActive"))
           /\ dec.err = "nil"
           /\ \A f \in DOMAIN FieldKind : SameField(FieldKind[f], tgt[f], dec.x[f])
           /\ dec.n = WriteTo(typ, dec.x, NoPlan).n
           /\ dec.n = Len(dec.input)
           /\ src = <<>>

\* the record with every field valid came back from its 62 bytes into a
\* target that held something else
C12_Witness ==
    /\ typ.kind = "Complex" /\ dec.phase = "done" /\ dec.whole
    /\ \A f \in DOMAIN FieldKind : dec.x[f].Valid /\ tgt[f].Valid
    /\ tgt.Name.String = <<74, 111>> /\ tgt.Age.Int64 = I64(12345)
    /\ dec.n = 62 /\ dec.err = "nil" /\ src = <<>>

\* C5 (as stated): after a decode that returned an error the target is
\* invalid and holds the zero value of its type.
C5_ZeroAfterError ==
    (typ.kind \in ScalarKinds /\ dec.phase = "done" /\ dec.err # "nil")
        => tgt = ZeroValue(typ.kind)

\* C7: truncated input.  ReadFrom on a strict prefix p of an encoding
\* returns an error and n = len(p), for the five scalars and the composite.
C7_TruncatedInput ==
    (dec.phase = "done" /\ ~dec.raw /\ ~dec.whole)
        => dec.err # "nil" /\ dec.n = Len(dec.input)

\* the composite record was cut in the middle of a later field
C7_Witness ==
    /\ typ.kind = "Complex" /\ dec.phase = "done" /\ ~dec.raw /\ ~dec.whole
    /\ Len(dec.input) = 40 /\ dec.n = 40 /\ dec.err = "ErrUnexpectedEOF"

\* C8: a reused target.  After any earlier decodes, a ReadFrom whose first
\* byte is the invalid marker 0x00 takes that one byte and leaves the target
\* invalid with the zero value of its type.
C8_InvalidMarkerResets ==
    (typ.kind \in ScalarKinds /\ dec.phase = "done" /\ Len(dec.input) >= 1 /\ dec.input[1] = 0)
        => /\ tgt = ZeroValue(typ.kind)
           /\ dec.err = "nil"
           /\ dec.n = 1
           /\ src = Tail(dec.input)

\* a target that held a valid true was reset by a marker followed by more bytes
C8_Witness ==
    /\ typ = [kind |-> "Bool", form |-> "Optimized"] /\ dec.phase = "done"
    /\ dec.input = <<0, 1>> /\ src = <<1>> /\ nreads = 1
    /\ tgt = [Bool |-> FALSE, Valid |-> FALSE]

\* C6 (as stated): the first Write that fails is the last one WriteTo makes,
\* WriteTo returns that call's error, and n is the number of bytes the sink
\* took.
C6_WriteFailurePolicy ==
    enc.phase = "WriteTo"
        => /\ \A i \in 1..Len(enc.calls) :
                enc.calls[i].err # "nil" => (i = Len(enc.calls) /\ enc.err = enc.calls[i].err)
           /\ (\A i \in 1..Len(enc.calls) : enc.calls[i].err = "nil") => enc.err = "nil"
           /\ enc.n = Len(Accepted(enc.calls))

(***************************************************************************)
(* Properties of the text codec.                                           *)
(***************************************************************************)
\* C2: text round trip of string, int64 and bool.  UnmarshalJSON of the
\* bytes MarshalJSON returned for x, into a fresh target, returns no error,
\* gives x's Valid and, when x is valid, x's value.
C2_TextRoundTrip ==
    (dec.phase = "done" /\ dec.whole /\ dec.fresh /\ (typ.kind = "String" => ValidUTF8(dec.x.String)))
        => /\ dec.err = "nil"
           /\ tgt.Valid = dec.x.Valid
           /\ dec.x.Valid => Payload(typ.kind, tgt) = Payload(typ.kind, dec.x)

\* a 33-byte string with a quote went through the general encoder and came back
C2_Witness ==
    /\ typ.kind = "String" /\ dec.phase = "done" /\ dec.whole /\ dec.fresh
    /\ dec.x.Valid /\ dec.x.String = <<34>> \o Repeat(98, 33)
    /\ Len(dec.input) = 37 /\ tgt = dec.x

\* C9 (as stated): every text the int64 decoder accepts is accepted by the
\* general JSON parser decoding into an int64, with the same value.
C9_IntFastPathEquivalence ==
    (typ.kind = "Int64" /\ dec.phase = "done" /\ dec.err = "nil" /\ ~isNullJSON(dec.input))
        => /\ JsonUnmarshalInt64(dec.input).err = "nil"
           /\ tgt.Valid
           /\ tgt.Int64 = JsonUnmarshalInt64(dec.input).val

\* the digits the input consists of, after the sign, without leading zeros
RECURSIVE StripZeros(_)
StripZeros(ds) == IF Len(ds) > 1 /\ Head(ds) = 48 THEN StripZeros(Tail(ds)) ELSE ds

\* the number written by the digit string ds is above the one written by ms
DigitsAbove(ds, ms) ==
    LET d == StripZeros(ds)
    IN  \/ Len(d) > Len(ms)
        \/ /\ Len(d) = Len(ms)
           /\ \E i \in 1..Len(d) : d[i] > ms[i] /\ \A j \in 1..(i - 1) : d[j] = ms[j]

\* an optional '-' and digits, with a value outside the int64 range
OutOfInt64Range(b) ==
    LET neg == b # <<>> /\ b[1] = 45
        ds == IF neg THEN Tail(b) ELSE b
    IN  /\ ds # <<>>
        /\ \A i \in 1..Len(ds) : IsDigit(ds[i])
        /\ DigitsAbove(ds, IF neg THEN Tail(FormatInt(MinInt64)) ELSE FormatInt(MaxInt64))

\* C10 (as stated): a text of an optional '-' and digits whose value is
\* outside the int64 range is answered with an error, and no valid value is
\* stored.
C10_IntOverflowGuard ==
    (typ.kind = "Int64" /\ dec.phase = "done" /\ OutOfInt64Range(dec.input))
        => dec.err # "nil" /\ (tgt.Valid => tgt = dec.before)

\* C11 (as stated): every text the string decoder accepts, null aside, is
\* accepted by the general JSON parser decoding into a string, with the same
\* string.
C11_StringFastPathEquivalence ==
    (typ.kind = "String" /\ dec.phase = "done" /\ dec.err = "nil" /\ ~isNullJSON(dec.input))
        => /\ JsonUnmarshalString(dec.input).err = "nil"
           /\ tgt.Valid
           /\ tgt.String = JsonUnmarshalString(dec.input).val

\* C4: validity fidelity, for the five scalar types and any stored payload.
\* An invalid instance is encoded by MarshalJSON as exactly the bytes null
\* and by WriteTo, into a sink that takes everything, as exactly the byte 0;
\* a valid instance is never encoded as null nor with a first byte 0.
C4_ValidityFidelity ==
    /\ (enc.phase = "MarshalJSON" /\ ~enc.x.Valid)
           => enc.data = nullJSON /\ enc.err = "nil"
    /\ (enc.phase = "MarshalJSON" /\ enc.x.Valid)
           => enc.data # nullJSON
    /\ (enc.phase = "WriteTo" /\ typ.kind \in ScalarKinds /\ enc.plan = NoPlan /\ ~enc.x.Valid)
           => Accepted(enc.calls) = <<0>> /\ enc.n = 1 /\ enc.err = "nil"
    /\ (enc.phase = "WriteTo" /\ typ.kind \in ScalarKinds /\ enc.plan = NoPlan /\ enc.x.Valid)
           => Accepted(enc.calls) # <<>> /\ Accepted(enc.calls)[1] # 0

\* an invalid int64 holding the largest payload was encoded as text
C4_Witness ==
    /\ typ.kind = "Int64" /\ enc.phase = "MarshalJSON"
    /\ ~enc.x.Valid /\ enc.x.Int64 = MaxInt64
    /\ enc.data = nullJSON

(***************************************************************************)
(* Properties of the intern pool.  A call that holds the mutex and has     *)
(* reached its return (pc = "ret") has hist.seq as the pool it found and   *)
(* pool as the pool it leaves.                                             *)
(***************************************************************************)
AtReturn(t, op) == thr[t].pc = "ret" /\ thr[t].op = op
Keys(p) == DOMAIN p.cache
ListKeys(p) == {p.lru[i].key.bytes : i \in 1..Len(p.lru)}

\* C14: a string below the minimum length.  Intern returns the caller's own
\* string, with no step between the call and the return that changes the
\* pool: same entries, same size, same recency order.
C14_BelowThresholdUntouched ==
    [][\A t \in Threads :
          /\ (/\ thr[t].pc = "idle" /\ thr'[t] # thr[t]
              /\ thr'[t].op = "Intern" /\ Len(thr'[t].s.bytes) < pool.minLen)
                 => /\ thr'[t].pc = "short"
                    /\ thr'[t].result = StrResult(thr'[t].s)
                    /\ pool' = pool /\ hist' = hist
          /\ (thr[t].pc = "short" /\ thr'[t] # thr[t])
                 => /\ thr'[t].pc = "idle"
                    /\ pool' = pool /\ hist' = hist]_vars

\* a short string was interned on a pool that holds two entries
C14_Witness ==
    \E t \in Threads :
        /\ thr[t].pc = "short" /\ thr[t].op = "Intern"
        /\ Len(thr[t].s.bytes) < pool.minLen
        /\ thr[t].result = StrResult(thr[t].s)
        /\ Len(pool.lru) = 2 /\ Cardinality(Keys(pool)) = 2

\* C15: a hit.  If the content of s is in the pool, Intern returns the string
\* stored when the entry was inserted, the pool keeps its entries and its
\* size, the entry becomes the front of the recency list and the others
\* keep their order; interned twice in a row on an empty pool, a string
\* leaves one entry.
C15_HitReturnsStored ==
    \A t \in Threads :
        (AtReturn(t, "Intern") /\ thr[t].s.bytes \in Keys(hist.seq))
            => /\ thr[t].result = StrResult(hist.stored[thr[t].s.bytes])
               /\ pool.cache = hist.seq.cache
               /\ Len(pool.lru) = Len(hist.seq.lru)
               /\ pool.lru[1] = hist.seq.cache[thr[t].s.bytes]
               /\ Without(pool.lru, pool.lru[1]) = Without(hist.seq.lru, pool.lru[1])
               /\ (hist.recent = <<thr[t].s.bytes>> /\ hist.dropped = {})
                      => Cardinality(Keys(pool)) = 1

\* a thread's string hit the entry the other thread had inserted, which was
\* not the front of the list, and got the other thread's string
C15_Witness ==
    \E t \in Threads :
        /\ AtReturn(t, "Intern") /\ thr[t].s.bytes \in Keys(hist.seq)
        /\ thr[t].result.s.at # t
        /\ Len(hist.seq.lru) = 2
        /\ hist.seq.lru[2].key.bytes = thr[t].s.bytes
        /\ pool.lru[1].key.bytes = thr[t].s.bytes

\* the place of a content in the order of the returns, past the end if it
\* was never returned; the contents of a set returned the longest ago
Rank(recent, b) ==
    IF InList(recent, b) THEN CHOOSE i \in 1..Len(recent) : recent[i] = b
    ELSE Len(recent) + 1
LeastRecent(keys, recent) == {k \in keys : \A j \in keys : Rank(recent, j) <= Rank(recent, k)}

\* C16: strict LRU eviction on a pool with maxSize >= 1.  An insertion that
\* makes the entries exceed maxSize evicts exactly one entry, the one whose
\* last return by Intern is the oldest, and any other insertion evicts none;
\* the inserted string is the caller's own and is the front of the list.
\* Between calls the list holds the maxSize contents returned last, in the
\* order of their returns: after maxSize + 1 distinct strings the first is
\* gone, and interning it again inserts it anew.
C16_StrictLRU ==
    /\ \A t \in Threads :
           (/\ AtReturn(t, "Intern") /\ thr[t].s.bytes \notin Keys(hist.seq)
            /\ pool.maxSize >= 1)
               => /\ thr[t].result = StrResult(thr[t].s)
                  /\ pool.lru # <<>> /\ pool.lru[1] = lruEntry(thr[t].s)
                  /\ thr[t].s.bytes \in Keys(pool)
                  /\ IF Cardinality(Keys(hist.seq)) + 1 > pool.maxSize
                     THEN /\ Keys(hist.seq) \ Keys(pool)
                                 = LeastRecent(Keys(hist.seq), hist.recent)
                          /\ Cardinality(Keys(hist.seq) \ Keys(pool)) = 1
                          /\ Cardinality(Keys(pool)) = pool.maxSize
                     ELSE Keys(hist.seq) \subseteq Keys(pool)
    /\ (mu = 0 /\ pool.maxSize >= 1)
           => [i \in 1..Len(pool.lru) |-> pool.lru[i].key.bytes]
                  = SubSeq(hist.recent, 1, Min(pool.maxSize, Len(hist.recent)))

\* on a pool of two entries, a content that had been evicted is interned
\* again: it is inserted anew and the entry returned the longest ago goes
C16_Witness ==
    \E t \in Threads :
        /\ AtReturn(t, "Intern") /\ pool.maxSize = 2
        /\ Len(hist.recent) = 3 /\ hist.recent[3] = thr[t].s.bytes
        /\ thr[t].s.bytes \notin Keys(hist.seq)
        /\ Keys(hist.seq) = {hist.recent[1], hist.recent[2]}
        /\ Keys(pool) = {thr[t].s.bytes, hist.recent[1]}
        /\ pool.lru[1] = lruEntry(thr[t].s)

\* C17: bounded size, for maxSize >= 0.  When a call returns and between
\* calls the pool holds maxSize entries at most, and Size never returns more.
C17_BoundedSize ==
    /\ (mu = 0 \/ \E t \in Threads : thr[t].pc = "ret")
           => Cardinality(Keys(pool)) <= pool.maxSize /\ Len(pool.lru) <= pool.maxSize
    /\ \A t \in Threads :
           AtReturn(t, "Size")
               => thr[t].result.n >= 0 /\ thr[t].result.n <= pool.maxSize

\* a pool of maxSize 0: a string was interned and Size then returned 0
C17_Witness ==
    \E t \in Threads :
        /\ pool.maxSize = 0 /\ hist.recent # <<>>
        /\ AtReturn(t, "Size") /\ thr[t].result = IntResult(0)
        /\ Keys(pool) = {} /\ pool.lru = <<>>

\* a thread is between Lock and Unlock; the map and the list agree
InSection(t) == thr[t].pc \in {"locked", "pushed", "over", "removed", "cleared", "ret"}
Consistent(p) ==
    /\ Keys(p) = ListKeys(p)
    /\ Len(p.lru) = Cardinality(Keys(p))
    /\ \A i \in 1..Len(p.lru) : p.cache[p.lru[i].key.bytes] = p.lru[i]

\* C18: concurrency.  One thread at a time is between Lock and Unlock; a
\* call finds the map and the list in agreement when it gets the mutex, so
\* that no call sees one updated without the other; at its return a call has
\* left the pool and got the result that the operation run in one piece
\* gives on the pool of the calls returned before it, and between calls the
\* pool is the one those calls leave when run one after the other.
C18_CallsAreAtomic ==
    /\ \A t, u \in Threads : (InSection(t) /\ InSection(u)) => t = u
    /\ \A t \in Threads : InSection(t) => mu = t
    /\ \A t \in Threads : thr[t].pc = "locked" => (Consistent(pool) /\ pool = hist.seq)
    /\ \A t \in Threads :
           thr[t].pc = "ret"
               => /\ pool = Call(hist.seq, thr[t].op, thr[t].s).pool
                  /\ thr[t].result = Call(hist.seq, thr[t].op, thr[t].s).result
    /\ mu = 0 => (Consistent(pool) /\ pool = hist.seq)

\* one thread has pushed its element and not yet stored it in the map, the
\* other waits for the mutex to intern the same content
C18_Witness ==
    \E t, u \in Threads :
        /\ thr[t].pc = "pushed" /\ ~Consistent(pool)
        /\ thr[u].pc = "wait" /\ thr[u].op = "Intern"
        /\ thr[u].s.bytes = thr[t].s.bytes
        /\ mu = t

\* C19: Clear.  At the return of Clear the pool is empty, and Size returns 0
\* until a string is interned; a string interned before the Clear is not
\* found after it: Intern inserts it anew and returns the caller's own
\* string; a string Intern returns has the content the caller asked for.
C19_ClearDropsAll ==
    /\ \A t \in Threads :
           AtReturn(t, "Clear") => (Keys(pool) = {} /\ pool.lru = <<>>)
    /\ \A t \in Threads :
           (AtReturn(t, "Size") /\ hist.recent = <<>>) => thr[t].result = IntResult(0)
    /\ \A t \in Threads :
           (AtReturn(t, "Intern") /\ thr[t].s.bytes \in hist.dropped)
               => /\ thr[t].result = StrResult(thr[t].s)
                  /\ pool.maxSize >= 1
                         => (/\ thr[t].s.bytes \in Keys(pool)
                             /\ pool.cache[thr[t].s.bytes] = lruEntry(thr[t].s)
                             /\ pool.lru[1] = lruEntry(thr[t].s))
    /\ \A t \in Threads :
           (thr[t].op = "Intern" /\ thr[t].pc \in {"ret", "short"})
               => thr[t].result.s.bytes = thr[t].s.bytes

\* a thread interns, as the first string after a Clear, a content that was
\* interned before the Clear, and gets its own string back as the one entry
C19_Witness ==
    \E t \in Threads :
        /\ AtReturn(t, "Intern") /\ thr[t].s.bytes \in hist.dropped
        /\ hist.recent = <<>> /\ Cardinality(hist.dropped) = 2
        /\ thr[t].result = StrResult(thr[t].s) /\ pool.maxSize >= 1
        /\ pool.lru = <<lruEntry(thr[t].s)>>

\* C20 (as stated): the timestamp decoder on a text of digits.  For every
\* non-empty text of digits whose value m an int64 holds, UnmarshalJSON
\* returns no error and leaves Valid set and a time whose UnixMilli() is m.
C20_DigitsAreUnixMillis ==
    (/\ typ.kind = "Time" /\ dec.phase = "done"
     /\ dec.input # <<>> /\ IsSimpleNumber(dec.input) /\ ParseInt(dec.input).err = "nil")
        => /\ dec.err = "nil"
           /\ tgt.Valid
           /\ UnixMilli(tgt.Time) = ParseInt(dec.input).val

(***************************************************************************)
(* The rules of the timestamp decoder.                                     *)
(***************************************************************************)
\* what the rules take: digits; a date in quotes; an RFC 3339 time in
\* quotes; an object that decodes as a TimeResponse whose iso is an RFC 3339
\* time; a number a float64 holds
InQuotes(b) == Len(b) > 2 /\ b[1] = 34 /\ b[Len(b)] = 34
Inner(b) == SubSeq(b, 2, Len(b) - 1)
IsDigitLiteral(b) == b # <<>> /\ IsSimpleNumber(b)
IsQuotedDate(b) == InQuotes(b) /\ ParseDate(Inner(b)).ok
IsQuotedRFC3339(b) == InQuotes(b) /\ ParseRFC3339Nano(Inner(b)).ok
IsIsoObject(b) ==
    /\ IsValidJSON(b) /\ Trim(b)[1] = 123
    /\ JsonUnmarshalTimeResponse(b).err = "nil"
    /\ ParseRFC3339Nano(JsonUnmarshalTimeResponse(b).ISO).ok
IsFloatLiteral(b) ==
    /\ IsValidJSON(b) /\ (Trim(b)[1] = 45 \/ IsDigit(Trim(b)[1]))
    /\ JsonUnmarshalFloatMillis(b, "amd64").err = "nil"
MatchesNoRule(b) ==
    ~(\/ IsDigitLiteral(b) \/ IsQuotedDate(b) \/ IsQuotedRFC3339(b)
      \/ IsIsoObject(b) \/ IsFloatLiteral(b))

\* C21: the rules of the timestamp decoder are tried in the order digits,
\* quoted date, quoted RFC 3339 time, object with an iso, floating-point
\* number, and the first that matches decides: a quoted date is the midnight
\* of that day, a quoted time and the iso of an object are that instant, and
\* a text that matches a rule is decoded without error as a valid time; a
\* text other than null that matches no rule is an error and the target is
\* not valid after it.  (Digits that no int64 holds are left aside.)
C21_RuleOrderAndRejection ==
    (/\ typ.kind = "Time" /\ dec.phase = "done" /\ ~isNullJSON(dec.input)
     /\ ~(IsDigitLiteral(dec.input) /\ ParseInt(dec.input).err # "nil"))
        => IF MatchesNoRule(dec.input) THEN dec.err # "nil" /\ ~tgt.Valid
           ELSE /\ dec.err = "nil" /\ tgt.Valid
                /\ IsQuotedDate(dec.input) => tgt.Time = ParseDate(Inner(dec.input)).t
                /\ (~IsQuotedDate(dec.input) /\ IsQuotedRFC3339(dec.input))
                       => tgt.Time = ParseRFC3339Nano(Inner(dec.input)).t
                /\ (~IsDigitLiteral(dec.input) /\ IsIsoObject(dec.input))
                       => tgt.Time = ParseRFC3339Nano(JsonUnmarshalTimeResponse(dec.input).ISO).t

(***************************************************************************)
(* The binary layout.                                                      *)
(***************************************************************************)
\* a 64-bit number and a length as bytes, the least significant first
LittleEndian64(v) == <<v[8], v[7], v[6], v[5], v[4], v[3], v[2], v[1]>>
LittleEndian32(n) == <<n % 256, (n \div 256) % 256, (n \div 65536) % 256, n \div 16777216>>

\* C22: WriteTo of a valid value into a sink that takes everything emits,
\* for an int64, the byte 1 and the 8 bytes of the value, least significant
\* first (42 gives 01 2A 00 00 00 00 00 00 00); for a string, the byte 1, its
\* length in 4 bytes, least significant first, and its bytes (the empty
\* string gives 01 00 00 00 00); for a timestamp, the byte 1, the seconds
\* since the epoch in 8 bytes, the nanoseconds in 4, and a byte 0; and the n
\* returned is the count of the bytes emitted: 9, 5 + len, 14.
C22_BinaryLayout ==
    (enc.phase = "WriteTo" /\ enc.plan = NoPlan /\ typ.kind \in {"Int64", "String", "Time"}
     /\ enc.x.Valid)
        => /\ enc.err = "nil" /\ enc.n = Len(Accepted(enc.calls))
           /\ typ.kind = "Int64"
                  => /\ Accepted(enc.calls) = <<1>> \o LittleEndian64(enc.x.Int64)
                     /\ enc.n = 9
                     /\ enc.x.Int64 = I64(42)
                            => Accepted(enc.calls) = <<1, 42, 0, 0, 0, 0, 0, 0, 0>>
           /\ typ.kind = "String"
                  => /\ Accepted(enc.calls) =
                            (<<1>> \o LittleEndian32(Len(enc.x.String))) \o enc.x.String
                     /\ enc.n = 5 + Len(enc.x.String)
                     /\ enc.x.String = <<>> => Accepted(enc.calls) = <<1, 0, 0, 0, 0>>
           /\ typ.kind = "Time"
                  => /\ Accepted(enc.calls) =
                            (<<1>> \o LittleEndian64(enc.x.Time.sec)) \o
                            (LittleEndian32(enc.x.Time.nsec) \o <<0>>)
                     /\ enc.n = 14

\* a valid timestamp with a fraction of a second, in a zone other than UTC,
\* was written in 14 bytes
C22_Witness ==
    /\ typ.kind = "Time" /\ enc.phase = "WriteTo" /\ enc.plan = NoPlan
    /\ enc.x.Valid /\ enc.x.Time.nsec = 123456789 /\ enc.x.Time.loc # "UTC"
    /\ enc.n = 14 /\ Len(Accepted(enc.calls)) = 14

\* C23: OptimizedNullBool.WriteTo makes one Write of one byte, which is 0 for
\* an invalid value whatever Bool holds, 1 for a valid false and 3 for a
\* valid true.  ReadFrom on a reader that holds a byte consumes exactly one,
\* takes Valid from its bit 0, and takes Bool from its bit 1 when bit 0 is
\* set and as false when it is not.
C23_BoolPacking ==
    (typ.kind = "Bool" /\ dec.phase = "done")
        => /\ ~dec.raw
                  => /\ Len(WriteTo(typ, dec.x, NoPlan).calls) = 1
                     /\ WriteTo(typ, dec.x, NoPlan).n = 1
                     /\ Encoding(typ, dec.x) =
                            <<IF ~dec.x.Valid THEN 0 ELSE IF dec.x.Bool THEN 3 ELSE 1>>
           /\ Len(dec.input) >= 1
                  => /\ dec.err = "nil" /\ dec.n = 1
                     /\ src = Tail(dec.input)
                     /\ tgt.Valid = (dec.input[1] % 2 = 1)
                     /\ tgt.Bool = (dec.input[1] % 2 = 1 /\ (dec.input[1] \div 2) % 2 = 1)

\* the bytes 02 09 were read: one byte was consumed, and the target is
\* invalid and false
C23_Witness ==
    /\ typ = [kind |-> "Bool", form |-> "Optimized"] /\ dec.phase = "done"
    /\ dec.input = <<2, 9>> /\ dec.n = 1 /\ src = <<9>>
    /\ ~tgt.Valid /\ ~tgt.Bool

\* equal as float64 numbers: the same bits, or the two zeros
SameFloat(x, y) == x = y \/ {x, y} \subseteq {Zero64, NegZero}

\* the decoder computed the value of b without calling a parser
ParserFree(b) ==
    \/ Len(b) = 1 /\ IsDigit(b[1])
    \/ Len(b) > 0 /\ IsSimpleFloat(b) /\ ~HasDecimal(b) /\ Len(b) <= 2 + StartIdx(b)

\* C24: every text other than null on which OptimizedNullFloat64.UnmarshalJSON
\* returns no error is a number literal that json.Unmarshal into a float64
\* accepts too, with the same value, and the target is valid with that value;
\* a text whose value was computed without a parser is a well-formed number
C24_FloatFastPathEquivalence ==
    (/\ typ = [kind |-> "Float64", form |-> "Optimized"]
     /\ dec.phase = "done" /\ dec.err = "nil" /\ dec.input # nullJSON)
    => /\ JsonUnmarshalFloat64(dec.input).err = "nil"
       /\ Trim(dec.input) # nullJSON
       /\ tgt.Valid
       /\ SameFloat(tgt.Float64, JsonUnmarshalFloat64(dec.input).val)
       /\ (ParserFree(dec.input) => IsValidJSON(dec.input))

\* the records the threads hold
Held(th) == Cardinality({t \in Threads : th[t].has})

\* a call on an invalid timestamp is made in this step: a call begins and no
\* thread moves
InvalidCallIn == nreads' # nreads /\ \A t \in Threads : thr'[t].pc = thr[t].pc

C25_Step ==
    /\ \A i \in 1..Len(pool') : pool'[i] = ZeroTimeResponse
    /\ hist' # hist
       => /\ hist'[1].err = "nil"
          /\ hist'[1].data = OptimizedCustomTime_MarshalJSON(hist'[1].ct).data
    /\ InvalidCallIn => pool' = pool /\ thr' = thr /\ ~hist'[1].ct.Valid
    /\ \A t \in Threads :
        /\ thr'[t].pc \in {"got", "marshalled"} <=> thr'[t].has
        /\ (thr[t].has /\ ~thr'[t].has)
           => pool' = Append(pool, ZeroTimeResponse) /\ Held(thr') = Held(thr) - 1
        /\ (thr[t].pc # "idle" /\ thr'[t].pc = "idle")
           => thr[t].pc = "put" /\ ~thr[t].has /\ pool' = pool /\ hist'[1].ct = thr[t].ct

\* C25: a MarshalJSON call on a valid timestamp holds one record between Get
\* and Put and puts it back, with its six fields zero, before it returns; so
\* every record in the pool is all-zero; a call on an invalid timestamp
\* leaves the pool and every record alone; and every call returns, with no
\* error, the bytes that the timestamp alone determines, whatever calls ran
\* before it or run beside it
C25_ScratchRecycling == [][C25_Step]_vars

\* a call that took a record another call had put back has returned, while
\* another thread is between Get and Put with a record filled from another
\* timestamp and the pool holds a record
C25_Witness ==
    /\ hist # <<>> /\ hist[1].reused /\ hist[1].ct.Valid
    /\ \E t \in Threads :
        /\ thr[t].pc = "marshalled" /\ thr[t].tr # ZeroTimeResponse
        /\ thr[t].ct # hist[1].ct
    /\ pool # <<>>

\* C26: when the reader holds the encodings of v1 to vk one after the other
\* and the matching ReadFrom is called k times, every call returns no error,
\* leaves its target with the value it was written from, returns the length
\* of that value's encoding as n and leaves the reader at the first byte of
\* the next value; after the last call the n add up to the length of the
\* stream and the reader is empty
C26_BackToBack ==
    dec.phase = "done"
    => /\ dec.err = "nil"
       /\ SameField(typ.kind, tgt, hist[nreads].x)
       /\ dec.n = Len(Encoding(hist[nreads].t, hist[nreads].x))
       /\ src = StreamFrom(hist, nreads + 1)
       /\ dec.total + Len(src) = Len(StreamFrom(hist, 1))
       /\ (nreads = Len(hist) => src = <<>> /\ dec.total = Len(StreamFrom(hist, 1)))

\* a valid timestamp followed by a valid string has been read, the string
\* into a target that held another one
C26_Witness ==
    /\ Len(hist) = 2 /\ nreads = 2 /\ dec.phase = "done"
    /\ hist[1].t.kind = "Time" /\ hist[1].x.Valid
    /\ typ.kind = "String" /\ tgt = [String |-> <<200, 255, 97, 0>>, Valid |-> TRUE]
    /\ dec.n = 9 /\ dec.total = 23

\* C27: after an UnmarshalJSON of an optional scalar, in either form, that
\* returned no error, the target holds what the same call leaves in a target
\* that held nothing, so its Valid and its value follow from the input
\* alone; after the text null the target is invalid with the zero value
C27_DecodeDependsOnInputOnly ==
    (typ.kind \in ScalarKinds /\ dec.phase = "done" /\ dec.err = "nil")
    => /\ tgt = DecodeText(typ, ZeroScalar(typ.kind), dec.input, dec.arch).tgt
       /\ (dec.input = nullJSON => tgt = ZeroScalar(typ.kind))

\* C28: UnmarshalJSON of every type of the package, called with a text of
\* length zero, returns an error: it neither succeeds nor stops the program
\* with a run-time panic
C28_EmptyInputIsAnError ==
    (dec.phase = "done" /\ dec.input = <<>>) => dec.err \notin {"nil", "panic"}

\* a call has been carried out: no thread holds the mutex, or the one that
\* holds it is at its return
BetweenCalls == mu = 0 \/ \E t \in Threads : thr[t].pc = "ret"

\* C29: when no call is under way in the pool, the keys of the map are the
\* keys of the list's elements, no two elements of the list have one key,
\* the map takes every key to an element of the list that carries this key,
\* the map and the list have the same length, and a Size call returns it
C29_MapAndListAgree ==
    BetweenCalls
    => /\ DOMAIN pool.cache = {pool.lru[i].key.bytes : i \in 1..Len(pool.lru)}
       /\ \A i, j \in 1..Len(pool.lru) :
              pool.lru[i].key.bytes = pool.lru[j].key.bytes => i = j
       /\ \A k \in DOMAIN pool.cache :
              /\ pool.cache[k].key.bytes = k
              /\ \E i \in 1..Len(pool.lru) : pool.lru[i] = pool.cache[k]
       /\ Cardinality(DOMAIN pool.cache) = Len(pool.lru)
       /\ \A t \in Threads : AtReturn(t, "Size") => thr[t].result = IntResult(Len(pool.lru))

\* an Intern that evicted the oldest entry is at its return, and the full
\* pool holds the new string
C29_Witness ==
    \E t \in Threads :
        /\ AtReturn(t, "Intern") /\ thr[t].oldest # NilElem
        /\ pool.maxSize >= 1 /\ Len(pool.lru) = pool.maxSize
        /\ thr[t].s.bytes \in DOMAIN pool.cache
        /\ thr[t].oldest.key.bytes \notin DOMAIN pool.cache

\* C30: whatever the caller wrote into the results of earlier calls, a
\* MarshalJSON call returns the bytes of the encoding of its value
C30_ResultsAreCallerOwned ==
    enc.phase = "MarshalJSON" => enc.data = MarshalJSON(typ, enc.x).data

====
